---- MODULE Spec2Model ----
(***************************************************************************)
(* miniascape: chunked double-buffered cellular automaton engine.          *)
(* Grid / Chunk (src/src/board.rs), Rule / Neighbors (src/src/rule.rs),    *)
(* World2D (src/src/world.rs), and the parts of App (src/src/app.rs) that   *)
(* drive them.                                                             *)
(***************************************************************************)
EXTENDS Integers, Sequences, FiniteSets, TLC

\* ------------------------------------------------------------------------
\* program constants

CHUNK_LEN == 16
CHUNK_SIZE == CHUNK_LEN * CHUNK_LEN
GS_DEFAULT_N == 40
GS_SLIDER_MIN == 0
GS_SLIDER_MAX == 100
SEED == 123456789
ARRAYVEC_CAP == 9

\* ------------------------------------------------------------------------
\* bounds of the model

MaxChunks == 4
MaxIter == 2
MaxOps == 2
MaxExtent == 4
MaxClipCells == 4
MaxFrames == 3
MaxShift == 6
MaxGen == 4
MaxApps == 3
MaxTabFrames == 6
MaxPastes == 1
MaxDigits == 10

\* ------------------------------------------------------------------------
\* values

States == 0..2
None == -1
Err == -2
Topologies == {"VonNeumann", "Moore", "Hex"}
RuleKinds == {"LifeGame", "HighLife", "GeneralizedLifeGame", "WireWorld",
              "RockPaperScissors", "Dynamic", "GrayScott"}

\* clipboard is the application's Option<ClipBoard>: <<>> or <<cb>>;
\* panicked is TRUE once an assertion has failed, which ends the program
\* app holds the App fields running and err (err is TRUE while a message is
\* recorded); wrap holds the WrapApp fields apps and focus
VARIABLES grid, rule, rng, last, swaps, calls, ops, kind, gs_n,
          clipboard, panicked, query, app, wrap

vars == <<grid, rule, rng, last, swaps, calls, ops, kind, gs_n,
          clipboard, panicked, query, app, wrap>>

\* zero-based access to a Vec
At(v, idx) == v[idx + 1]

abs(n) == IF n < 0 THEN -n ELSE n

\* ------------------------------------------------------------------------
\* Neighbors (rule.rs)

\* a step to the left that does not wrap
xprev_nowrap(x, w) == x - 1

xprev(x, w) == IF x = 0 THEN w - 1 ELSE x - 1
xnext(x, w) == IF x = w - 1 THEN 0 ELSE x + 1
yprev(y, h) == IF y = 0 THEN h - 1 ELSE y - 1
ynext(y, h) == IF y = h - 1 THEN 0 ELSE y + 1

\* the four neighbours in clockwise order
VonNeumannClockwise(x, y, w, h) ==
    <<<<x, yprev(y, h)>>, <<xnext(x, w), y>>, <<x, ynext(y, h)>>, <<xprev(x, w), y>>>>

VonNeumannNeighbors(x, y, w, h) ==
    << <<x, yprev(y, h)>>, <<xnext(x, w), y>>, <<xprev(x, w), y>>, <<x, ynext(y, h)>> >>

MooreNeighbors(x, y, w, h) ==
    << <<xprev(x, w), yprev(y, h)>>, <<x, yprev(y, h)>>, <<xnext(x, w), yprev(y, h)>>,
       <<xprev(x, w), y>>,                               <<xnext(x, w), y>>,
       <<xprev(x, w), ynext(y, h)>>, <<x, ynext(y, h)>>, <<xnext(x, w), ynext(y, h)>> >>

\* a hexagonal neighbourhood that takes every row for an even one
HexGridEvenRows(x, y, w, h) ==
    << <<xprev(x, w), yprev(y, h)>>, <<x, yprev(y, h)>>,
       <<xprev(x, w), y>>,           <<xnext(x, w), y>>,
       <<xprev(x, w), ynext(y, h)>>, <<x, ynext(y, h)>> >>

HexGridNeighbors(x, y, w, h) ==
    IF y % 2 = 0
    THEN << <<xprev(x, w), yprev(y, h)>>, <<x, yprev(y, h)>>,
            <<xprev(x, w), y>>,           <<xnext(x, w), y>>,
            <<xprev(x, w), ynext(y, h)>>, <<x, ynext(y, h)>> >>
    ELSE << <<x, yprev(y, h)>>, <<xnext(x, w), yprev(y, h)>>,
            <<xprev(x, w), y>>, <<xnext(x, w), y>>,
            <<x, ynext(y, h)>>, <<xnext(x, w), ynext(y, h)>> >>

neighbors(nb, x, y, w, h) ==
    CASE nb = "VonNeumann" -> VonNeumannNeighbors(x, y, w, h)
      [] nb = "Moore"      -> MooreNeighbors(x, y, w, h)
      [] nb = "Hex"        -> HexGridNeighbors(x, y, w, h)

\* ------------------------------------------------------------------------
\* Rule (rule.rs): an implementor of the trait over the cell states 0..2 on
\* the neighbourhood r.nb. Its update is a scripted transition: it reads the
\* first and the last neighbour, so it depends on their order, and it raises
\* a runtime error on some neighbourhoods. As in the application, a rule with
\* an iterations slider returns its field n from iteration_per_step and the
\* other rules keep the trait's default.

num_neighbors(nb) ==
    CASE nb = "VonNeumann" -> 4
      [] nb = "Moore"      -> 8
      [] nb = "Hex"        -> 6

\* a rule whose method m always fails, as a DynamicRule whose script throws
Fails(r, m) == "fails" \in DOMAIN r /\ m \in r.fails

RuleUpdate(r, center, nbs) ==
    IF Fails(r, "update")
    THEN Err
    ELSE IF center = 2 /\ nbs[1] = 2 /\ nbs[num_neighbors(r.nb)] = 1
         THEN Err
         ELSE (center + nbs[1] + 2 * nbs[num_neighbors(r.nb)]) % 3

default_state(r) == 0

next(r, st) == (st + 1) % 3

iteration_per_step(r) == IF r.slider THEN r.n ELSE 1

\* ------------------------------------------------------------------------
\* Chunk and Grid (board.rs)

\* a chunk of default cells, whatever the fill asked for
ChunkDefault(i) == [k \in 1..CHUNK_SIZE |-> 0]

ChunkInit(i) == [k \in 1..CHUNK_SIZE |-> i]

Grid_init(x_chunks, y_chunks, i) ==
    [num_chunks_x |-> x_chunks,
     num_chunks_y |-> y_chunks,
     chunks |-> [k \in 1..(x_chunks * y_chunks) |-> ChunkInit(i)],
     buffer |-> [k \in 1..(x_chunks * y_chunks) |-> ChunkInit(i)]]

width(g) == g.num_chunks_x * CHUNK_LEN
height(g) == g.num_chunks_y * CHUNK_LEN

chunk_at(g, x, y) == At(g.chunks, y * g.num_chunks_x + x)

has_cell(g, x, y) == x < width(g) /\ y < height(g)

\* Chunk::cell_at: index of a local cell inside a chunk
ChunkCellIdx(clx, cly) == cly * CHUNK_LEN + clx

\* index of the chunk holding global cell (x, y)
ChunkIdx(g, x, y) == (y \div CHUNK_LEN) * g.num_chunks_x + (x \div CHUNK_LEN)

cell_at(g, x, y) ==
    At(At(g.chunks, ChunkIdx(g, x, y)), ChunkCellIdx(x % CHUNK_LEN, y % CHUNK_LEN))

\* *cell_at_mut(x, y) = v
cell_at_mut(g, x, y, v) ==
    [g EXCEPT !.chunks[ChunkIdx(g, x, y) + 1]
                      [ChunkCellIdx(x % CHUNK_LEN, y % CHUNK_LEN) + 1] = v]

\* a write of the new value into the visible chunks, in place
bufcell_in_place(g, x, y, v) == cell_at_mut(g, x, y, v)

\* *bufcell_at_mut(x, y) = v
bufcell_at_mut(g, x, y, v) ==
    [g EXCEPT !.buffer[ChunkIdx(g, x, y) + 1]
                      [ChunkCellIdx(x % CHUNK_LEN, y % CHUNK_LEN) + 1] = v]

swap_buffer(g) == [g EXCEPT !.chunks = g.buffer, !.buffer = g.chunks]

\* a buffer that is left at its old length
resize_keep(v, new_len, value) == v

\* Vec::resize
resize(v, new_len, value) ==
    IF new_len <= Len(v) THEN SubSeq(v, 1, new_len)
    ELSE v \o [k \in 1..(new_len - Len(v)) |-> value]

\* an expansion that never shifts the old columns
x_ofs_zero(n) == 0

\* let x_ofs = if 0 <= n { 0 } else { na }
x_ofs(n) == IF 0 <= n THEN 0 ELSE abs(n)

\* an expansion without the early return that allocates a fresh buffer
expand_x_fresh_buffer(g, n, init) ==
    LET na == abs(n)
        old == (0..(g.num_chunks_x - 1)) \X (0..(g.num_chunks_y - 1))
        idx(p) == p[2] * (g.num_chunks_x + na) + (p[1] + (IF 0 <= n THEN 0 ELSE na))
    IN [num_chunks_x |-> g.num_chunks_x + na,
        num_chunks_y |-> g.num_chunks_y,
        chunks |-> [k \in 1..((g.num_chunks_x + na) * g.num_chunks_y) |->
                       IF \E p \in old : idx(p) = k - 1
                       THEN LET p == CHOOSE q \in old : idx(q) = k - 1
                            IN chunk_at(g, p[1], p[2])
                       ELSE [c \in 1..CHUNK_SIZE |-> init]],
        buffer |-> [k \in 1..((g.num_chunks_x + na) * g.num_chunks_y) |->
                       [c \in 1..CHUNK_SIZE |-> init]]]

expand_x(g, n, init) ==
    IF n = 0 THEN g
    ELSE LET na == abs(n)
             old == (0..(g.num_chunks_x - 1)) \X (0..(g.num_chunks_y - 1))
             idx(p) == p[2] * (g.num_chunks_x + na) + (p[1] + x_ofs(n))
             new_chunks ==
                 [k \in 1..((g.num_chunks_x + na) * g.num_chunks_y) |->
                     IF \E p \in old : idx(p) = k - 1
                     THEN LET p == CHOOSE q \in old : idx(q) = k - 1
                          IN chunk_at(g, p[1], p[2])
                     ELSE ChunkInit(init)]
         IN [num_chunks_x |-> g.num_chunks_x + na,
             num_chunks_y |-> g.num_chunks_y,
             chunks |-> new_chunks,
             buffer |-> resize(g.buffer, (g.num_chunks_x + na) * g.num_chunks_y,
                               ChunkInit(init))]

\* an expansion that never shifts the old rows
y_ofs_zero(n) == 0

\* let y_ofs = if 0 <= n { 0 } else { na }
y_ofs(n) == IF 0 <= n THEN 0 ELSE abs(n)

expand_y(g, n, init) ==
    IF n = 0 THEN g
    ELSE LET na == abs(n)
             old == (0..(g.num_chunks_x - 1)) \X (0..(g.num_chunks_y - 1))
             idx(p) == (p[2] + y_ofs(n)) * g.num_chunks_x + p[1]
             new_chunks ==
                 [k \in 1..(g.num_chunks_x * (g.num_chunks_y + na)) |->
                     IF \E p \in old : idx(p) = k - 1
                     THEN LET p == CHOOSE q \in old : idx(q) = k - 1
                          IN chunk_at(g, p[1], p[2])
                     ELSE ChunkInit(init)]
         IN [num_chunks_x |-> g.num_chunks_x,
             num_chunks_y |-> g.num_chunks_y + na,
             chunks |-> new_chunks,
             buffer |-> resize(g.buffer, g.num_chunks_x * (g.num_chunks_y + na),
                               ChunkInit(init))]

\* a clear that stops after the first chunk
clear_first_chunk(g, r) ==
    [g EXCEPT !.chunks[1] = [c \in 1..CHUNK_SIZE |-> default_state(r)]]

\* a clear that allocates a fresh board of one chunk
clear_realloc(g, r) == Grid_init(1, 1, default_state(r))

\* Grid::clear / Chunk::clear: every cell of every chunk := default_state
clear(g, r) ==
    [g EXCEPT !.chunks = [k \in 1..Len(g.chunks) |->
                             [c \in 1..CHUNK_SIZE |-> default_state(r)]]]

\* World2D::update, the body of the innermost loop: the rule applied to the
\* cell (x, y) of the current generation and its neighbours in order
UpdateCell(g, r, x, y) ==
    LET idxs == neighbors(r.nb, x, y, width(g), height(g))
    IN RuleUpdate(r, cell_at(g, x, y),
                  [k \in 1..num_neighbors(r.nb) |-> cell_at(g, idxs[k][1], idxs[k][2])])

\* for i in 0..CHUNK_LEN; s = [g, err, calls, swaps]; `?` leaves on an error
RECURSIVE LoopI(_, _, _, _, _, _)
LoopI(s, r, x0, y0, j, i) ==
    IF s.err \/ i = CHUNK_LEN THEN s
    ELSE LET res == UpdateCell(s.g, r, x0 + i, y0 + j)
         IN IF res = Err
            THEN [s EXCEPT !.err = TRUE, !.calls = @ + 1]
            ELSE LoopI([s EXCEPT !.g = bufcell_at_mut(s.g, x0 + i, y0 + j, res),
                                 !.calls = @ + 1],
                       r, x0, y0, j, i + 1)

\* for j in 0..CHUNK_LEN
RECURSIVE LoopJ(_, _, _, _, _)
LoopJ(s, r, x0, y0, j) ==
    IF s.err \/ j = CHUNK_LEN THEN s
    ELSE LoopJ(LoopI(s, r, x0, y0, j, 0), r, x0, y0, j + 1)

\* for ci in 0..n_chunks_x
RECURSIVE LoopCi(_, _, _, _)
LoopCi(s, r, cj, ci) ==
    IF s.err \/ ci = s.g.num_chunks_x THEN s
    ELSE LoopCi(LoopJ(s, r, ci * CHUNK_LEN, cj * CHUNK_LEN, 0), r, cj, ci + 1)

\* for cj in 0..n_chunks_y
RECURSIVE LoopCj(_, _, _)
LoopCj(s, r, cj) ==
    IF s.err \/ cj = s.g.num_chunks_y THEN s
    ELSE LoopCj(LoopCi(s, r, cj, 0), r, cj + 1)

\* a loop that swaps the buffers after a failed pass as well
RECURSIVE LoopIterSwapAlways(_, _, _)
LoopIterSwapAlways(s, r, it) ==
    IF s.err \/ it >= iteration_per_step(r) THEN s
    ELSE LET t == LoopCj(s, r, 0)
         IN IF t.err THEN [t EXCEPT !.g = swap_buffer(t.g), !.swaps = @ + 1]
            ELSE LoopIterSwapAlways([t EXCEPT !.g = swap_buffer(t.g), !.swaps = @ + 1],
                                    r, it + 1)

\* a loop over the inclusive range 0..=iteration_per_step
RECURSIVE LoopIterInclusive(_, _, _)
LoopIterInclusive(s, r, it) ==
    IF s.err \/ it > iteration_per_step(r) THEN s
    ELSE LET t == LoopCj(s, r, 0)
         IN IF t.err THEN t
            ELSE LoopIterInclusive([t EXCEPT !.g = swap_buffer(t.g), !.swaps = @ + 1],
                                   r, it + 1)

\* for _ in 0..iteration_per_step: one pass over the board, then swap_buffer
RECURSIVE LoopIter(_, _, _)
LoopIter(s, r, it) ==
    IF s.err \/ it >= iteration_per_step(r) THEN s
    ELSE LET t == LoopCj(s, r, 0)
         IN IF t.err THEN t
            ELSE LoopIter([t EXCEPT !.g = swap_buffer(t.g), !.swaps = @ + 1], r, it + 1)

\* World2D::update. calls counts the calls of Rule::update it made, swaps its
\* calls of swap_buffer; err is TRUE when it returns an error.
update(g, r) ==
    LoopIter([g |-> g, err |-> FALSE, calls |-> 0, swaps |-> 0], r, 0)

\* the rng handed to Rule::randomize. rand::rngs::StdRng is a counter based
\* generator: the k-th word drawn is a fixed function of the seed and k. The
\* state kept here is k, the number of words drawn so far.
RngWord(k) == (((SEED + k) % 251) * ((SEED + k) % 241) * 31 + 7 * k) % 65537

\* Rule::randomize: one draw, one state
RuleRandomize(r, k) == RngWord(k) % 3

\* a chunk that hands out its draws column by column
ChunkRandomizeColumnMajor(r, k) ==
    [c \in 1..CHUNK_SIZE |->
        RuleRandomize(r, k + ((c - 1) % CHUNK_LEN) * CHUNK_LEN + ((c - 1) \div CHUNK_LEN))]

\* Chunk::randomize: for c in cells.iter_mut() { *c = rule.randomize(rng) }
\* the c-th cell (from 0) of the chunk gets the draw number k + c
ChunkRandomize(r, k) == [c \in 1..CHUNK_SIZE |-> RuleRandomize(r, k + c - 1)]

\* Grid::randomize: for ch in chunks.iter_mut() { ch.randomize(rule, rng) }
\* the chunks take their draws one after the other in storage order
randomize(g, r, k) ==
    [g |-> [g EXCEPT !.chunks = [c \in 1..Len(g.chunks) |->
                                    ChunkRandomize(r, k + (c - 1) * CHUNK_SIZE)]],
     rng |-> k + Len(g.chunks) * CHUNK_SIZE]

\* ------------------------------------------------------------------------
\* ClipBoard (board.rs): x, y and a Vec of Option<T>, None for a masked cell

ClipBoard_cell_at(cb, x, y) == At(cb.cells, x + y * cb.x)

\* ClipBoard::new: x * y masked cells
ClipBoard_new(x, y) == [x |-> x, y |-> y, cells |-> [k \in 1..(x * y) |-> None]]

\* the assertion of ClipBoard::cell_at and cell_at_mut
ClipBoard_has_cell(cb, x, y) == x < cb.x /\ y < cb.y

\* ClipBoard::cell_at_mut followed by the assignment of v
ClipBoard_cell_at_mut(cb, x, y, v) == [cb EXCEPT !.cells[x + y * cb.x + 1] = v]

\* a rotation that forgets the - 1 of the source column
RotSrcOffByOne(cb, i, j) == <<cb.x - j, i>>

\* a rotation that turns the other way
RotSrcCounter(cb, i, j) == <<j, cb.y - 1 - i>>

\* the cell of self that rotated.cell_at_mut(i, j) is assigned from
RotSrc(cb, i, j) == <<cb.x - 1 - j, i>>

\* for j in 0..rotated.height(), for i in 0..rotated.width(), from position k;
\* s = [rot, panic], panic when an assertion of cell_at or cell_at_mut fails
RECURSIVE RotateLoop(_, _, _)
RotateLoop(s, cb, k) ==
    IF s.panic \/ k = s.rot.x * s.rot.y THEN s
    ELSE LET i == k % s.rot.x
             j == k \div s.rot.x
             src == RotSrc(cb, i, j)
         IN IF ~ClipBoard_has_cell(s.rot, i, j)
               \/ src[1] < 0 \/ src[2] < 0
               \/ ~ClipBoard_has_cell(cb, src[1], src[2])
            THEN [s EXCEPT !.panic = TRUE]
            ELSE RotateLoop([s EXCEPT !.rot = ClipBoard_cell_at_mut(
                                 s.rot, i, j, ClipBoard_cell_at(cb, src[1], src[2]))],
                            cb, k + 1)

\* ClipBoard::rotate: *self = rotated, unless it panicked
rotate(cb) ==
    LET s == RotateLoop([rot |-> ClipBoard_new(cb.y, cb.x), panic |-> FALSE], cb, 0)
    IN [cb |-> IF s.panic THEN cb ELSE s.rot, panic |-> s.panic]

\* a copy that reads the board from its origin, not from the selection
copy_region_no_offset(g, sx, sy, ex, ey) ==
    LET cb == ClipBoard_new(ex - sx + 1, ey - sy + 1)
    IN [cb EXCEPT !.cells =
            [k \in 1..(cb.x * cb.y) |->
                LET i == (k - 1) % cb.x
                    j == (k - 1) \div cb.x
                IN IF has_cell(g, i, j) THEN cell_at(g, i, j) ELSE None]]

\* the copy of the selected region ((sx, sy), (ex, ey)) into a new clipboard:
\* for j, for i, if has_cell(sx + i, sy + j) then cell (i, j) = Some(cell_at)
copy_region(g, sx, sy, ex, ey) ==
    LET cb == ClipBoard_new(ex - sx + 1, ey - sy + 1)
    IN [cb EXCEPT !.cells =
            [k \in 1..(cb.x * cb.y) |->
                LET i == (k - 1) % cb.x
                    j == (k - 1) \div cb.x
                IN IF has_cell(g, sx + i, sy + j)
                   THEN cell_at(g, sx + i, sy + j)
                   ELSE None]]

\* a paste that writes the default state under a masked entry
RECURSIVE PasteLoopUnmasked(_, _, _, _, _)
PasteLoopUnmasked(s, xofs, yofs, cb, k) ==
    IF s.panic \/ k = cb.x * cb.y THEN s
    ELSE LET i == k % cb.x
             j == k \div cb.x
             c == ClipBoard_cell_at(cb, i, j)
         IN IF ~has_cell(s.g, i + xofs, j + yofs)
            THEN [s EXCEPT !.panic = TRUE]
            ELSE PasteLoopUnmasked(
                     [s EXCEPT !.g = cell_at_mut(s.g, i + xofs, j + yofs,
                                                 IF c = None THEN 0 ELSE c)],
                     xofs, yofs, cb, k + 1)

\* Grid::paste_clipboard: for j, for i, if let Some(c) = cb.cell_at(i, j);
\* s = [g, panic], panic when the assertion of Grid::cell_at_mut fails
RECURSIVE PasteLoop(_, _, _, _, _)
PasteLoop(s, xofs, yofs, cb, k) ==
    IF s.panic \/ k = cb.x * cb.y THEN s
    ELSE LET i == k % cb.x
             j == k \div cb.x
             c == ClipBoard_cell_at(cb, i, j)
         IN IF c = None THEN PasteLoop(s, xofs, yofs, cb, k + 1)
            ELSE IF ~has_cell(s.g, i + xofs, j + yofs)
            THEN [s EXCEPT !.panic = TRUE]
            ELSE PasteLoop([s EXCEPT !.g = cell_at_mut(s.g, i + xofs, j + yofs, c)],
                           xofs, yofs, cb, k + 1)

\* it returns Ok(()) whenever it returns
paste_clipboard(g, xofs, yofs, cb) ==
    PasteLoop([g |-> g, panic |-> FALSE], xofs, yofs, cb, 0)

\* ------------------------------------------------------------------------
\* the rules of the application and their iteration_per_step: the trait's
\* default returns 1, GrayScottRule returns its field n

RuleIterationPerStep(k, n) == IF k = "GrayScott" THEN n ELSE 1

\* ------------------------------------------------------------------------
\* inputs of the model

Clips == { [x |-> 2, y |-> 1, cells |-> <<1, None>>],
           [x |-> 1, y |-> 2, cells |-> <<2, 1>>] }

ExpandArgs == {-1, 1}

Fills == {2}

\* a rule on each neighbourhood; as among the shipped rules, where only
\* GrayScottRule overrides iteration_per_step, the rule on the von Neumann
\* neighbourhood is the one with the slider, left at any value so far
Rules ==
    {[nb |-> t, n |-> 1, slider |-> FALSE] : t \in {"Moore", "Hex"}}
    \cup {[nb |-> "VonNeumann", n |-> k, slider |-> TRUE] : k \in 1..MaxIter}

Op(op, a, b, ok) == [op |-> op, a |-> a, b |-> b, ok |-> ok]

\* ------------------------------------------------------------------------
\* the state machine of one World2D driven by its App

\* World2D::new: Grid::init with the rule's default state, then clear
World2D_new(r, x_chunks, y_chunks) ==
    clear(Grid_init(x_chunks, y_chunks, default_state(r)), r)

\* App::default and App::new: not running, no error recorded
App_new == [running |-> FALSE, err |-> FALSE]

\* WrapApp::new: no sub-application, the Home tab selected
WrapApp_new == [apps |-> <<>>, focus |-> None]

\* the application builds its worlds with 4 x 3 chunks; the model starts
\* from one chunk and lets the board grow by expansion
Init ==
    /\ rule \in Rules
    /\ grid = World2D_new(rule, 1, 1)
    /\ rng = 0
    /\ last = Op("new", 0, 0, TRUE)
    /\ swaps = 0
    /\ calls = 0
    /\ ops = 0
    /\ kind = "Generic"
    /\ gs_n = 0
    /\ clipboard = <<>>
    /\ panicked = FALSE
    /\ query = <<>>
    /\ app = App_new
    /\ wrap = WrapApp_new

\* World::expand_x
ExpandX ==
    /\ ops < MaxOps
    /\ ~panicked
    /\ \E n \in ExpandArgs, fill \in Fills :
        /\ (grid.num_chunks_x + abs(n)) * grid.num_chunks_y <= MaxChunks
        /\ grid' = expand_x(grid, n, fill)
        /\ last' = Op("expand_x", n, fill, TRUE)
    /\ ops' = ops + 1
    /\ swaps' = 0
    /\ calls' = 0
    /\ UNCHANGED <<rule, rng, kind, gs_n, clipboard, panicked, query, app, wrap>>

\* World::expand_y
ExpandY ==
    /\ ops < MaxOps
    /\ ~panicked
    /\ \E n \in ExpandArgs, fill \in Fills :
        /\ grid.num_chunks_x * (grid.num_chunks_y + abs(n)) <= MaxChunks
        /\ grid' = expand_y(grid, n, fill)
        /\ last' = Op("expand_y", n, fill, TRUE)
    /\ ops' = ops + 1
    /\ swaps' = 0
    /\ calls' = 0
    /\ UNCHANGED <<rule, rng, kind, gs_n, clipboard, panicked, query, app, wrap>>

\* World::update (the Step button, or a frame while running)
Update ==
    /\ ops < MaxOps
    /\ ~panicked
    /\ LET s == update(grid, rule)
       IN /\ grid' = s.g
          /\ swaps' = s.swaps
          /\ calls' = s.calls
          /\ last' = Op("update", 0, 0, ~s.err)
    /\ ops' = ops + 1
    /\ UNCHANGED <<rule, rng, kind, gs_n, clipboard, panicked, query, app, wrap>>

\* World::clear (the Reset button)
Clear ==
    /\ ops < MaxOps
    /\ ~panicked
    /\ grid' = clear(grid, rule)
    /\ last' = Op("clear", 0, 0, TRUE)
    /\ ops' = ops + 1
    /\ swaps' = 0
    /\ calls' = 0
    /\ UNCHANGED <<rule, rng, kind, gs_n, clipboard, panicked, query, app, wrap>>

\* World::randomize (the Randomize button)
Randomize ==
    /\ ops < MaxOps
    /\ ~panicked
    /\ LET s == randomize(grid, rule, rng)
       IN /\ grid' = s.g
          /\ rng' = s.rng
    /\ last' = Op("randomize", 0, 0, TRUE)
    /\ ops' = ops + 1
    /\ swaps' = 0
    /\ calls' = 0
    /\ UNCHANGED <<rule, kind, gs_n, clipboard, panicked, query, app, wrap>>

\* a primary click on a cell: *cell_at_mut(ix, iy) = rule.next(cell_at(ix, iy))
EditCell ==
    /\ ops < MaxOps
    /\ ~panicked
    /\ \E far \in BOOLEAN :
        LET ix == IF far THEN width(grid) - 1 ELSE 0
            iy == IF far THEN height(grid) - 1 ELSE 0
        IN /\ grid' = cell_at_mut(grid, ix, iy, next(rule, cell_at(grid, ix, iy)))
           /\ last' = Op("edit", ix, iy, TRUE)
    /\ ops' = ops + 1
    /\ swaps' = 0
    /\ calls' = 0
    /\ UNCHANGED <<rule, rng, kind, gs_n, clipboard, panicked, query, app, wrap>>

\* Board::paste_clipboard with a footprint inside the board
Paste ==
    /\ ops < MaxOps
    /\ ~panicked
    /\ \E cb \in Clips :
        LET xofs == width(grid) - cb.x
            yofs == height(grid) - cb.y
        IN /\ grid' = paste_clipboard(grid, xofs, yofs, cb).g
           /\ last' = Op("paste", xofs, yofs, TRUE)
    /\ ops' = ops + 1
    /\ swaps' = 0
    /\ calls' = 0
    /\ UNCHANGED <<rule, rng, kind, gs_n, clipboard, panicked, query, app, wrap>>

\* Board::swap_buffer called on its own
SwapBuffer ==
    /\ ops < MaxOps
    /\ ~panicked
    /\ grid' = swap_buffer(grid)
    /\ last' = Op("swap_buffer", 0, 0, TRUE)
    /\ ops' = ops + 1
    /\ swaps' = 0
    /\ calls' = 0
    /\ UNCHANGED <<rule, rng, kind, gs_n, clipboard, panicked, query, app, wrap>>

\* Rule::ui of a rule with an iterations slider: the user picks a value
RuleUi ==
    /\ ops < MaxOps
    /\ ~panicked
    /\ rule.slider
    /\ \E n \in 0..MaxIter :
        /\ n # rule.n
        /\ rule' = [rule EXCEPT !.n = n]
        /\ last' = Op("ui", n, 0, TRUE)
    /\ ops' = ops + 1
    /\ UNCHANGED <<grid, rng, swaps, calls, kind, gs_n, clipboard, panicked, query, app, wrap>>

Next ==
    \/ ExpandX
    \/ ExpandY
    \/ Update
    \/ Clear
    \/ Randomize
    \/ EditCell
    \/ Paste
    \/ SwapBuffer
    \/ RuleUi

Spec == Init /\ [][Next]_vars


\* ------------------------------------------------------------------------
\* the rules the application ships, and the iterations slider of Gray-Scott

\* the world of one shipped rule; GrayScottRule::default has n = 40
RulesInit ==
    /\ kind \in RuleKinds
    /\ gs_n = GS_DEFAULT_N
    /\ rule = [nb |-> "VonNeumann", n |-> 1, slider |-> FALSE]
    /\ grid = World2D_new(rule, 1, 1)
    /\ rng = 0
    /\ last = Op("new", 0, 0, TRUE)
    /\ swaps = 0
    /\ calls = 0
    /\ ops = 0
    /\ clipboard = <<>>
    /\ panicked = FALSE
    /\ query = <<>>
    /\ app = App_new
    /\ wrap = WrapApp_new

\* GrayScottRule::ui: Slider::new(&mut self.n, 0..=100)
GrayScottUi ==
    /\ kind = "GrayScott"
    /\ \E n \in GS_SLIDER_MIN..GS_SLIDER_MAX :
        /\ gs_n' = n
        /\ last' = Op("ui", n, 0, TRUE)
    /\ UNCHANGED <<grid, rule, rng, swaps, calls, ops, kind, clipboard, panicked, query, app, wrap>>

\* Rule::ui of the other rules: no control reaches an iteration count
OtherUi ==
    /\ kind # "GrayScott"
    /\ last' = Op("ui", 0, 0, TRUE)
    /\ UNCHANGED <<grid, rule, rng, swaps, calls, ops, kind, gs_n, clipboard, panicked, query, app, wrap>>

\* a requested step: World2D::update runs 0..iteration_per_step() micro-steps
RulesStep ==
    /\ swaps' = RuleIterationPerStep(kind, gs_n)
    /\ last' = Op("update", 0, 0, TRUE)
    /\ UNCHANGED <<grid, rule, rng, calls, ops, kind, gs_n, clipboard, panicked, query, app, wrap>>

RulesNext ==
    \/ GrayScottUi
    \/ OtherUi
    \/ RulesStep

SpecRules == RulesInit /\ [][RulesNext]_vars

\* ------------------------------------------------------------------------
\* the board and the clipboard under the editing operations, without update

\* the selections whose copy is taken: Board::clicked accepts x = width and
\* y = height, so that a selection can reach one cell beyond the board
Regions(g) ==
    { <<0, 0, 1, 1>>,
      <<width(g) - 1, height(g) - 1, width(g), height(g)>>,
      <<width(g) - 2, 0, width(g), 0>> }

\* World::expand_x and World::expand_y called with n = 0
ExpandZero ==
    /\ ops < MaxOps
    /\ ~panicked
    /\ \E fill \in States :
        \/ /\ grid' = expand_x(grid, 0, fill)
           /\ last' = Op("expand_x", 0, fill, TRUE)
        \/ /\ grid' = expand_y(grid, 0, fill)
           /\ last' = Op("expand_y", 0, fill, TRUE)
    /\ ops' = ops + 1
    /\ swaps' = 0
    /\ calls' = 0
    /\ UNCHANGED <<rule, rng, kind, gs_n, clipboard, panicked, query, app, wrap>>

\* a button of the rule's library: self.clipboard = Some(clip)
Library ==
    /\ ops < MaxOps
    /\ ~panicked
    /\ \E cb \in Clips :
        /\ clipboard' = <<cb>>
        /\ last' = Op("library", cb.x, cb.y, TRUE)
    /\ ops' = ops + 1
    /\ UNCHANGED <<grid, rule, rng, swaps, calls, kind, gs_n, panicked, query, app, wrap>>

\* the copy key on a selected region
Copy ==
    /\ ops < MaxOps
    /\ ~panicked
    /\ \E sel \in Regions(grid) :
        /\ clipboard' = <<copy_region(grid, sel[1], sel[2], sel[3], sel[4])>>
        /\ last' = [op |-> "copy", a |-> sel[1], b |-> sel[2], ok |-> TRUE,
                    ex |-> sel[3], ey |-> sel[4]]
    /\ ops' = ops + 1
    /\ UNCHANGED <<grid, rule, rng, swaps, calls, kind, gs_n, panicked, query, app, wrap>>

\* the R key while a clipboard is held
Rotate ==
    /\ ops < MaxOps
    /\ ~panicked
    /\ clipboard # <<>>
    /\ LET r == rotate(clipboard[1])
       IN /\ clipboard' = <<r.cb>>
          /\ panicked' = r.panic
          /\ last' = Op("rotate", 0, 0, ~r.panic)
    /\ ops' = ops + 1
    /\ UNCHANGED <<grid, rule, rng, swaps, calls, kind, gs_n, query, app, wrap>>

\* Board::paste_clipboard(xofs, yofs, cb) with the footprint in the far corner
\* of the board, or with its first entry on the last cell of the board
PasteAt ==
    /\ ops < MaxOps
    /\ ~panicked
    /\ \E cb \in Clips \cup {clipboard[k] : k \in 1..Len(clipboard)}, inside \in BOOLEAN :
        LET xofs == IF inside THEN width(grid) - cb.x ELSE width(grid) - 1
            yofs == IF inside THEN height(grid) - cb.y ELSE height(grid) - 1
            s == paste_clipboard(grid, xofs, yofs, cb)
        IN /\ grid' = s.g
           /\ panicked' = s.panic
           /\ last' = [op |-> "paste_clipboard", a |-> xofs, b |-> yofs,
                       ok |-> ~s.panic, cb |-> cb]
    /\ ops' = ops + 1
    /\ swaps' = 0
    /\ calls' = 0
    /\ UNCHANGED <<rule, rng, kind, gs_n, clipboard, query, app, wrap>>

BoardNext ==
    \/ ExpandX
    \/ ExpandY
    \/ ExpandZero
    \/ Clear
    \/ Randomize
    \/ EditCell
    \/ SwapBuffer
    \/ Library
    \/ Copy
    \/ Rotate
    \/ PasteAt

SpecBoard == Init /\ [][BoardNext]_vars

\* ------------------------------------------------------------------------
\* Neighbors::neighbors as a function of its arguments

\* every in-range cell of every board of up to MaxExtent x MaxExtent cells,
\* and the corner of the 10 x 10 board of the documentation
Queries ==
    {q \in [nb : Topologies, x : 0..(MaxExtent - 1), y : 0..(MaxExtent - 1),
            w : 1..MaxExtent, h : 1..MaxExtent] : q.x < q.w /\ q.y < q.h}
    \cup [nb : Topologies, x : {0}, y : {0}, w : {10}, h : {10}]

Answer(q) ==
    [nb |-> q.nb, x |-> q.x, y |-> q.y, w |-> q.w, h |-> q.h,
     out |-> neighbors(q.nb, q.x, q.y, q.w, q.h)]

NeighborsInit ==
    /\ query = <<>>
    /\ app = App_new
    /\ wrap = WrapApp_new
    /\ rule = [nb |-> "VonNeumann", n |-> 1, slider |-> FALSE]
    /\ grid = World2D_new(rule, 1, 1)
    /\ rng = 0
    /\ last = Op("new", 0, 0, TRUE)
    /\ swaps = 0
    /\ calls = 0
    /\ ops = 0
    /\ kind = "Generic"
    /\ gs_n = 0
    /\ clipboard = <<>>
    /\ panicked = FALSE

\* N::neighbors(x, y, w, h), as World2D::update calls it for a cell
NeighborsCall ==
    /\ \E q \in Queries : query' = <<Answer(q)>>
    /\ UNCHANGED <<grid, rule, rng, last, swaps, calls, ops, kind, gs_n,
                   clipboard, panicked, app, wrap>>

NeighborsNext == NeighborsCall

SpecNeighbors == NeighborsInit /\ [][NeighborsNext]_vars

\* ------------------------------------------------------------------------
\* ClipBoard::rotate on every clipboard of up to MaxClipCells cells

\* ClipBoard::from_vec accepts every x, y and cells with cells.len() = x * y
ClipBoards ==
    UNION { [x : {d[1]}, y : {d[2]}, cells : [1..(d[1] * d[2]) -> {None} \cup States]] :
            d \in {e \in (0..MaxClipCells) \X (0..MaxClipCells) :
                       e[1] * e[2] <= MaxClipCells} }

ClipInit ==
    /\ clipboard \in {<<cb>> : cb \in ClipBoards}
    /\ rule = [nb |-> "VonNeumann", n |-> 1, slider |-> FALSE]
    /\ grid = World2D_new(rule, 1, 1)
    /\ rng = 0
    /\ last = Op("new", 0, 0, TRUE)
    /\ swaps = 0
    /\ calls = 0
    /\ ops = 0
    /\ kind = "Generic"
    /\ gs_n = 0
    /\ panicked = FALSE
    /\ query = <<>>
    /\ app = App_new
    /\ wrap = WrapApp_new

ClipNext == Rotate

SpecClip == ClipInit /\ [][ClipNext]_vars

\* ------------------------------------------------------------------------
\* a world whose rule has failing methods: construction, clear, randomize
\* and update with the error handling of world.rs and board.rs

Methods == {"default_state", "randomize", "update"}

FallibleRules ==
    {[nb |-> t, n |-> 1, slider |-> FALSE, fails |-> f] :
        t \in Topologies, f \in SUBSET Methods}

\* Grid::default: no chunk; the state of the program before a world is built
Grid_default == Grid_init(0, 0, 0)

\* Grid::clear over Chunk::clear: `*c = rule.default_state()?` leaves on the
\* first cell when the rule fails, before any cell is written
Grid_clear(g, r) ==
    IF Fails(r, "default_state") /\ Len(g.chunks) > 0
    THEN [g |-> g, err |-> TRUE]
    ELSE [g |-> clear(g, r), err |-> FALSE]

\* Grid::randomize over Chunk::randomize: `*c = rule.randomize(rng)?`
Grid_randomize(g, r, k) ==
    IF Fails(r, "randomize") /\ Len(g.chunks) > 0
    THEN [g |-> g, rng |-> k, err |-> TRUE]
    ELSE [g |-> randomize(g, r, k).g, rng |-> randomize(g, r, k).rng, err |-> FALSE]

\* World2D::new and World2D::default:
\*   let init = rule.default_state().unwrap_or_default();
\*   let mut board = B::init(x_chunks, y_chunks, init);
\*   board.clear(&rule).expect("default construction must not fail");
\* substituted: init is T::default() in place of the failed result;
\* panic: expect met an Err
World2D_construct(r, x_chunks, y_chunks) ==
    LET failed == Fails(r, "default_state")
        init == IF failed THEN 0 ELSE default_state(r)
        c == Grid_clear(Grid_init(x_chunks, y_chunks, init), r)
    IN [g |-> c.g, substituted |-> failed, panic |-> c.err]

FailInit ==
    /\ rule \in FallibleRules
    /\ grid = Grid_default
    /\ rng = 0
    /\ last = Op("start", 0, 0, TRUE)
    /\ swaps = 0
    /\ calls = 0
    /\ ops = 0
    /\ kind = "Generic"
    /\ gs_n = 0
    /\ clipboard = <<>>
    /\ panicked = FALSE
    /\ query = <<>>
    /\ app = App_new
    /\ wrap = WrapApp_new

\* World2D::new(rule, x_chunks, y_chunks, 1)
FailNew ==
    /\ ops < MaxOps
    /\ ~panicked
    /\ last.op = "start"
    /\ \E d \in {<<1, 1>>, <<2, 1>>, <<1, 2>>} :
        LET s == World2D_construct(rule, d[1], d[2])
        IN /\ grid' = s.g
           /\ panicked' = s.panic
           /\ last' = Op("new", d[1], d[2], TRUE)
    /\ ops' = ops + 1
    /\ UNCHANGED <<rule, rng, swaps, calls, kind, gs_n, clipboard, query, app, wrap>>

\* World2D::clear: self.board.clear(&self.rule)
FailClear ==
    /\ ops < MaxOps
    /\ ~panicked
    /\ last.op # "start"
    /\ LET s == Grid_clear(grid, rule)
       IN /\ grid' = s.g
          /\ last' = Op("clear", 0, 0, ~s.err)
    /\ ops' = ops + 1
    /\ UNCHANGED <<rule, rng, swaps, calls, kind, gs_n, clipboard, panicked, query, app, wrap>>

\* World2D::randomize: self.board.randomize(&self.rule, rng)
FailRandomize ==
    /\ ops < MaxOps
    /\ ~panicked
    /\ last.op # "start"
    /\ LET s == Grid_randomize(grid, rule, rng)
       IN /\ grid' = s.g
          /\ rng' = s.rng
          /\ last' = Op("randomize", 0, 0, ~s.err)
    /\ ops' = ops + 1
    /\ UNCHANGED <<rule, swaps, calls, kind, gs_n, clipboard, panicked, query, app, wrap>>

\* World2D::update
FailUpdate ==
    /\ ops < MaxOps
    /\ ~panicked
    /\ last.op # "start"
    /\ LET s == update(grid, rule)
       IN /\ grid' = s.g
          /\ swaps' = s.swaps
          /\ calls' = s.calls
          /\ last' = Op("update", 0, 0, ~s.err)
    /\ ops' = ops + 1
    /\ UNCHANGED <<rule, rng, kind, gs_n, clipboard, panicked, query, app, wrap>>

FailNext == FailNew \/ FailClear \/ FailRandomize \/ FailUpdate

SpecFail == FailInit /\ [][FailNext]_vars

\* ------------------------------------------------------------------------
\* one App over its frames: App::update steps the world while running, then
\* handles the buttons of the side panel and the error report window

AppRules ==
    {[nb |-> "Moore", n |-> 1, slider |-> FALSE, fails |-> f] : f \in {{}, {"update"}}}

\* the first statement of App::update:
\*   if self.running { if let Err(e) = self.world.update() { self.err = Some(..) } }
AutoStep(g, r, a) ==
    IF a.running
    THEN LET s == update(g, r)
         IN [g |-> s.g, app |-> [a EXCEPT !.err = a.err \/ s.err],
             stepped |-> TRUE, failed |-> s.err]
    ELSE [g |-> g, app |-> a, stepped |-> FALSE, failed |-> FALSE]

\* what a frame leaves in last: a = 1 when the frame stepped the world on its
\* own, ok = FALSE when that step returned an error
FrameOp(name, s) == Op(name, IF s.stepped THEN 1 ELSE 0, 0, ~s.failed)

AppInit ==
    /\ rule \in AppRules
    /\ grid = World2D_new(rule, 1, 1)
    /\ rng = 0
    /\ last = Op("new", 0, 0, TRUE)
    /\ swaps = 0
    /\ calls = 0
    /\ ops = 0
    /\ kind = "Generic"
    /\ gs_n = 0
    /\ clipboard = <<>>
    /\ panicked = FALSE
    /\ query = <<>>
    /\ app = App_new
    /\ wrap = WrapApp_new

\* a frame without input
FrameIdle ==
    /\ ops < MaxFrames
    /\ LET s == AutoStep(grid, rule, app)
       IN /\ grid' = s.g
          /\ app' = s.app
          /\ last' = FrameOp("frame_idle", s)
    /\ ops' = ops + 1
    /\ UNCHANGED <<rule, rng, swaps, calls, kind, gs_n, clipboard, panicked, query, wrap>>

\* a frame in which the Run toggle is pressed: ui.toggle_value(&mut self.running, "Run")
FrameToggleRun ==
    /\ ops < MaxFrames
    /\ LET s == AutoStep(grid, rule, app)
       IN /\ grid' = s.g
          /\ app' = [s.app EXCEPT !.running = ~s.app.running]
          /\ last' = FrameOp("frame_toggle", s)
    /\ ops' = ops + 1
    /\ UNCHANGED <<rule, rng, swaps, calls, kind, gs_n, clipboard, panicked, query, wrap>>

\* a frame in which the Step button is pressed
FrameStep ==
    /\ ops < MaxFrames
    /\ LET s == AutoStep(grid, rule, app)
           u == update(s.g, rule)
       IN /\ grid' = u.g
          /\ app' = [s.app EXCEPT !.err = s.app.err \/ u.err]
          /\ last' = FrameOp("frame_step", s)
    /\ ops' = ops + 1
    /\ UNCHANGED <<rule, rng, swaps, calls, kind, gs_n, clipboard, panicked, query, wrap>>

\* a frame in which the Reset button is pressed
FrameReset ==
    /\ ops < MaxFrames
    /\ LET s == AutoStep(grid, rule, app)
           u == Grid_clear(s.g, rule)
       IN /\ grid' = u.g
          /\ app' = [s.app EXCEPT !.err = s.app.err \/ u.err]
          /\ last' = FrameOp("frame_reset", s)
    /\ ops' = ops + 1
    /\ UNCHANGED <<rule, rng, swaps, calls, kind, gs_n, clipboard, panicked, query, wrap>>

\* a frame in which the Randomize button is pressed
FrameRandomize ==
    /\ ops < MaxFrames
    /\ LET s == AutoStep(grid, rule, app)
           u == Grid_randomize(s.g, rule, rng)
       IN /\ grid' = u.g
          /\ rng' = u.rng
          /\ app' = [s.app EXCEPT !.err = s.app.err \/ u.err]
          /\ last' = FrameOp("frame_randomize", s)
    /\ ops' = ops + 1
    /\ UNCHANGED <<rule, swaps, calls, kind, gs_n, clipboard, panicked, query, wrap>>

\* a frame in which the Error Report window, shown since an earlier frame,
\* is closed: if !open { self.err = None; }
FrameCloseError ==
    /\ ops < MaxFrames
    /\ app.err
    /\ LET s == AutoStep(grid, rule, app)
       IN /\ grid' = s.g
          /\ app' = [s.app EXCEPT !.err = FALSE]
          /\ last' = FrameOp("frame_close", s)
    /\ ops' = ops + 1
    /\ UNCHANGED <<rule, rng, swaps, calls, kind, gs_n, clipboard, panicked, query, wrap>>

AppNext ==
    FrameIdle \/ FrameToggleRun \/ FrameStep \/ FrameReset \/ FrameRandomize
        \/ FrameCloseError

SpecApp == AppInit /\ [][AppNext]_vars

\* ------------------------------------------------------------------------
\* Board::clicked as a function of the pointer position. The position is
\* given in half cells: u = x / (cell_width / 2) and, on the square board,
\* v = y / (cell_width / 2); on the hexagonal board v counts half rows,
\* v = y / (r * sqrt(3) / 2) with r = cell_width / 2. The pointer visits the
\* positions with integer u and v from two half cells before the board to
\* three half cells behind it.

Boards == {"SquareGrid", "HexGrid"}

\* floor of a / 2 for a >= 0, as `.floor() as usize`
Half(a) == a \div 2

\* SquareGrid::clicked
SquareGrid_clicked(g, u, v) ==
    IF u < 0 \/ v < 0
    THEN <<>>
    ELSE LET x == Half(u)
             y == Half(v)
         IN IF width(g) < x \/ height(g) < y THEN <<>> ELSE << <<x, y>> >>

\* HexGrid::clicked: the row first, then odd rows are shifted right by r
HexGrid_clicked(g, u, v) ==
    IF v < 0
    THEN <<>>
    ELSE LET y == Half(v)
             xs == IF y % 2 = 0 THEN u ELSE u - 1
         IN IF xs < 0
            THEN <<>>
            ELSE LET x == Half(xs)
                 IN IF width(g) < x \/ height(g) < y THEN <<>> ELSE << <<x, y>> >>

Board_clicked(b, g, u, v) ==
    IF b = "SquareGrid" THEN SquareGrid_clicked(g, u, v) ELSE HexGrid_clicked(g, u, v)

Pointers(g) == ((-2)..(2 * width(g) + 3)) \X ((-2)..(2 * height(g) + 3))

\* a board of 1 x 1 or 2 x 1 chunks and a pressed pointer
ClickInit ==
    /\ rule = [nb |-> "Moore", n |-> 1, slider |-> FALSE]
    /\ \E d \in {<<1, 1>>, <<2, 1>>} : grid = World2D_new(rule, d[1], d[2])
    /\ \E b \in Boards : \E p \in Pointers(grid) :
          query = <<[board |-> b, u |-> p[1], v |-> p[2], done |-> FALSE, out |-> <<>>]>>
    /\ rng = 0
    /\ last = Op("new", 0, 0, TRUE)
    /\ swaps = 0
    /\ calls = 0
    /\ ops = 0
    /\ kind = "Generic"
    /\ gs_n = 0
    /\ clipboard = <<>>
    /\ panicked = FALSE
    /\ app = App_new
    /\ wrap = WrapApp_new

\* App::clicked: self.world.board().clicked(dx, dy, self.grid_width)
Clicked ==
    /\ ~query[1].done
    /\ query' = <<[query[1] EXCEPT
                     !.done = TRUE,
                     !.out = Board_clicked(query[1].board, grid, query[1].u, query[1].v)]>>
    /\ UNCHANGED <<grid, rule, rng, last, swaps, calls, ops, kind, gs_n,
                   clipboard, panicked, app, wrap>>

ClickNext == Clicked

SpecClick == ClickInit /\ [][ClickNext]_vars

\* ------------------------------------------------------------------------
\* the shipped rules LifeGameRule (lifegame.rs) and WireWorldRule
\* (wireworld.rs): update(board) computes every cell of the buffer from the
\* visible chunks and then swaps the two. The states are numbered in the
\* order of their enum; WireWorldState::Head and Tail are ElectronHead and
\* ElectronTail here

Dead == 0
Alive == 1

Void == 0
ElectronHead == 1
ElectronTail == 2
Wire == 3

\* for ny in [yprev, j, ynext] { for nx in [xprev, i, xnext] {
\*     if *board.cell_at(nx, ny) == v { n += 1 } } }
\* with the wrap written out in the rule: the cell itself is counted
Count3x3(g, i, j, v) ==
    LET xp == IF i = 0 THEN width(g) - 1 ELSE i - 1
        xn == IF i = width(g) - 1 THEN 0 ELSE i + 1
        yp == IF j = 0 THEN height(g) - 1 ELSE j - 1
        yn == IF j = height(g) - 1 THEN 0 ELSE j + 1
        one(nx, ny) == IF cell_at(g, nx, ny) = v THEN 1 ELSE 0
    IN one(xp, yp) + one(i, yp) + one(xn, yp)
       + one(xp, j) + one(i, j) + one(xn, j)
       + one(xp, yn) + one(i, yn) + one(xn, yn)

\* a rule that counts the eight neighbours as if the cell were not included
LifeGameCellOpenCount(board_is_alive, nalive) ==
    IF nalive = 3 \/ (board_is_alive /\ nalive = 2) THEN Alive ELSE Dead

\* LifeGameRule::update, the value written to the buffer
LifeGameCell(board_is_alive, nalive) ==
    IF nalive = 3 \/ (board_is_alive /\ nalive = 4) THEN Alive ELSE Dead

\* a wire that needs two heads to conduct
WireCellTwoHeads(nheads) == IF nheads = 2 THEN ElectronHead ELSE Wire

\* WireWorldRule::update, the value written for a Wire cell
WireCell(nheads) == IF nheads = 1 \/ nheads = 2 THEN ElectronHead ELSE Wire

\* WireWorldRule::update, the match on the cell
WireWorldCell(g, i, j) ==
    CASE cell_at(g, i, j) = Void -> Void
      [] cell_at(g, i, j) = ElectronHead -> ElectronTail
      [] cell_at(g, i, j) = ElectronTail -> Wire
      [] cell_at(g, i, j) = Wire -> WireCell(Count3x3(g, i, j, ElectronHead))

\* the cell a rule writes to bufcell_at_mut(i, j)
RuleCell(r, g, i, j) ==
    IF r.law = "LifeGame"
    THEN LifeGameCell(cell_at(g, i, j) = Alive, Count3x3(g, i, j, Alive))
    ELSE WireWorldCell(g, i, j)

\* Rule::update(board): the loops over j and i write every cell of the
\* buffer, reading the visible chunks only, then
\* std::mem::swap(&mut board.chunks, &mut board.buffer)
RuleBoardUpdate(r, g) ==
    [g EXCEPT
       !.chunks = [c \in 1..Len(g.chunks) |->
                     [k \in 1..CHUNK_SIZE |->
                        RuleCell(r, g,
                                 ((c - 1) % g.num_chunks_x) * CHUNK_LEN + ((k - 1) % CHUNK_LEN),
                                 ((c - 1) \div g.num_chunks_x) * CHUNK_LEN + ((k - 1) \div CHUNK_LEN))]],
       !.buffer = g.chunks]

\* the glider and the wire with an electron head on its left end, as cells
\* <<x, y, state>> relative to the pattern's corner
Glider == {<<1, 0, Alive>>, <<2, 1, Alive>>, <<0, 2, Alive>>, <<1, 2, Alive>>, <<2, 2, Alive>>}

HeadedWire ==
    {<<0, 0, ElectronHead>>, <<1, 0, Wire>>, <<2, 0, Wire>>, <<3, 0, Wire>>, <<4, 0, Wire>>}

\* the pattern moved by (dx, dy) on the torus of w x h cells
Shifted(pat, dx, dy, w, h) == {<<(c[1] + dx) % w, (c[2] + dy) % h, c[3]>> : c \in pat}

\* the cells of a board that are not in the rule's default state
Lit(g) ==
    {<<x, y, cell_at(g, x, y)>> : <<x, y>> \in
        {p \in (0..(width(g) - 1)) \X (0..(height(g) - 1)) : cell_at(g, p[1], p[2]) # 0}}

\* *cell_at_mut(x, y) = state for every cell of the pattern
RECURSIVE Draw(_, _)
Draw(g, pat) ==
    IF pat = {} THEN g
    ELSE LET c == CHOOSE e \in pat : TRUE
         IN Draw(cell_at_mut(g, c[1], c[2], c[3]), pat \ {c})

\* a cleared board of one chunk with the pattern drawn at some place
PatternInit ==
    /\ rule \in {[nb |-> "Moore", n |-> 1, slider |-> FALSE, law |-> l] :
                    l \in {"LifeGame", "WireWorld"}}
    /\ \E dx, dy \in 0..(MaxShift - 1) :
          /\ last = Op("draw", dx, dy, TRUE)
          /\ grid = Draw(Grid_init(1, 1, 0),
                         Shifted(IF rule.law = "LifeGame" THEN Glider ELSE HeadedWire,
                                 dx, dy, CHUNK_LEN, CHUNK_LEN))
    /\ rng = 0
    /\ swaps = 0
    /\ calls = 0
    /\ ops = 0
    /\ kind = "Generic"
    /\ gs_n = 0
    /\ clipboard = <<>>
    /\ panicked = FALSE
    /\ query = <<>>
    /\ app = App_new
    /\ wrap = WrapApp_new

\* one generation: rule.update(&mut board); swaps counts the generations
PatternUpdate ==
    /\ ops < MaxGen
    /\ grid' = RuleBoardUpdate(rule, grid)
    /\ swaps' = swaps + 1
    /\ ops' = ops + 1
    /\ UNCHANGED <<rule, rng, last, calls, kind, gs_n, clipboard, panicked, query, app, wrap>>

PatternNext == PatternUpdate

SpecPatterns == PatternInit /\ [][PatternNext]_vars

\* ------------------------------------------------------------------------
\* WrapApp over its frames (wrap_app.rs): the tab bar, then either the
\* focused sub-application or the cards of the Home page. A sub-application
\* is [id, running, gen]: gen counts the updates of its world; id tells the
\* boxed apps apart and is not a field of the program. focus is None or the
\* zero-based index of Some.

RemoveAt(v, idx) == SubSeq(v, 1, idx) \o SubSeq(v, idx + 2, Len(v))

\* a removal that leaves focus as it was
TabRemoveKeepFocus(w, idx) == [w EXCEPT !.apps = RemoveAt(w.apps, idx)]

\* if let Some(idx) = remove { self.apps.remove(idx); ... }
TabRemove(w, idx) ==
    LET apps == RemoveAt(w.apps, idx)
    IN [apps |-> apps,
        focus |-> IF w.focus = idx
                  THEN IF Len(apps) = 0 THEN None
                       ELSE IF Len(apps) <= idx THEN Len(apps) - 1
                       ELSE idx
                  ELSE IF w.focus # None /\ idx < w.focus THEN w.focus - 1
                  ELSE w.focus]

\* App::update of one sub-application: it steps its world if it is running;
\* toggle is a press on its Run toggle in this frame
SubAppUpdate(a, toggle) ==
    [id |-> a.id,
     running |-> IF toggle THEN ~a.running ELSE a.running,
     gen |-> IF a.running THEN a.gen + 1 ELSE a.gen]

\* a frame that runs every sub-application
UpdateEveryApp(w, toggle) ==
    [w EXCEPT !.apps = [k \in 1..Len(w.apps) |->
                           SubAppUpdate(w.apps[k], toggle /\ w.focus = k - 1)]]

\* if let Some(idx) = self.focus { self.apps[idx].1.update(ctx, frame); }
FocusedUpdate(w, toggle) ==
    IF w.focus = None
    THEN w
    ELSE [w EXCEPT !.apps[w.focus + 1] = SubAppUpdate(w.apps[w.focus + 1], toggle)]

AppIds(w) == {w.apps[k].id : k \in 1..Len(w.apps)}

FreshId(w) == CHOOSE i \in 1..(Len(w.apps) + 1) : i \notin AppIds(w)

WrapInit ==
    /\ rule = [nb |-> "Moore", n |-> 1, slider |-> FALSE]
    /\ grid = World2D_new(rule, 1, 1)
    /\ rng = 0
    /\ last = Op("new", 0, 0, TRUE)
    /\ swaps = 0
    /\ calls = 0
    /\ ops = 0
    /\ kind = "Generic"
    /\ gs_n = 0
    /\ clipboard = <<>>
    /\ panicked = FALSE
    /\ query = <<>>
    /\ app = App_new
    /\ wrap = WrapApp_new

\* a frame without a click
TabIdle ==
    /\ ops < MaxTabFrames
    /\ wrap' = FocusedUpdate(wrap, FALSE)
    /\ last' = Op("tab_idle", 0, 0, TRUE)
    /\ ops' = ops + 1
    /\ UNCHANGED <<grid, rule, rng, swaps, calls, kind, gs_n, clipboard, panicked, query, app>>

\* a click on Home: self.focus = None, then the cards are drawn
TabHome ==
    /\ ops < MaxTabFrames
    /\ wrap' = FocusedUpdate([wrap EXCEPT !.focus = None], FALSE)
    /\ last' = Op("tab_home", 0, 0, TRUE)
    /\ ops' = ops + 1
    /\ UNCHANGED <<grid, rule, rng, swaps, calls, kind, gs_n, clipboard, panicked, query, app>>

\* a click on the label of tab idx: self.focus = Some(idx)
TabSelect ==
    /\ ops < MaxTabFrames
    /\ \E idx \in 0..(Len(wrap.apps) - 1) :
          /\ wrap' = FocusedUpdate([wrap EXCEPT !.focus = idx], FALSE)
          /\ last' = Op("tab_select", idx, 0, TRUE)
    /\ ops' = ops + 1
    /\ UNCHANGED <<grid, rule, rng, swaps, calls, kind, gs_n, clipboard, panicked, query, app>>

\* a click on the close button of tab idx
TabClose ==
    /\ ops < MaxTabFrames
    /\ \E idx \in 0..(Len(wrap.apps) - 1) :
          /\ wrap' = FocusedUpdate(TabRemove(wrap, idx), FALSE)
          /\ last' = Op("tab_close", idx, 0, TRUE)
    /\ ops' = ops + 1
    /\ UNCHANGED <<grid, rule, rng, swaps, calls, kind, gs_n, clipboard, panicked, query, app>>

\* a click on a card of the Home page, drawn when no tab has the focus:
\*   self.focus = Some(self.apps.len()); self.apps.push((name, Box::new(App::default())))
TabOpenCard ==
    /\ ops < MaxTabFrames
    /\ wrap.focus = None
    /\ Len(wrap.apps) < MaxApps
    /\ wrap' = [apps |-> Append(wrap.apps,
                                [id |-> FreshId(wrap), running |-> App_new.running, gen |-> 0]),
                focus |-> Len(wrap.apps)]
    /\ last' = Op("tab_open", Len(wrap.apps), 0, TRUE)
    /\ ops' = ops + 1
    /\ UNCHANGED <<grid, rule, rng, swaps, calls, kind, gs_n, clipboard, panicked, query, app>>

\* a frame in which the Run toggle of the focused sub-application is pressed
TabToggleRun ==
    /\ ops < MaxTabFrames
    /\ wrap.focus # None
    /\ wrap' = FocusedUpdate(wrap, TRUE)
    /\ last' = Op("tab_run", wrap.focus, 0, TRUE)
    /\ ops' = ops + 1
    /\ UNCHANGED <<grid, rule, rng, swaps, calls, kind, gs_n, clipboard, panicked, query, app>>

WrapNext == TabIdle \/ TabHome \/ TabSelect \/ TabClose \/ TabOpenCard \/ TabToggleRun

SpecWrap == WrapInit /\ [][WrapNext]_vars

\* ------------------------------------------------------------------------
\* the paste key of App::update: the clipboard is centred on the cursor cell
\* and the board is expanded before Board::paste_clipboard is called

\* let d = a / CHUNK_LEN; let m = a % CHUNK_LEN; without the rounding up
ExpandCountFloor(a) == a \div CHUNK_LEN

\* let d = a / CHUNK_LEN; let m = a % CHUNK_LEN; let n = if m == 0 { d } else { d + 1 };
ExpandCount(a) ==
    LET d == a \div CHUNK_LEN
        m == a % CHUNK_LEN
    IN IF m = 0 THEN d ELSE d + 1

\* the body of `if self.clipboard.is_some() && paste`, with st the rule's
\* default state; left, right, top and bottom are the chunks added per side
PasteHandler(g, r, cursor_x, cursor_y, cb) ==
    LET st == default_state(r)
        ofs_x0 == cursor_x - (cb.x \div 2)
        ofs_y0 == cursor_y - (cb.y \div 2)
        left == IF ofs_x0 < 0 THEN ExpandCount(abs(ofs_x0)) ELSE 0
        g1 == IF ofs_x0 < 0 THEN expand_x(g, -left, st) ELSE g
        ofs_x == ofs_x0 + left * CHUNK_LEN
        right == IF width(g1) <= ofs_x + cb.x
                 THEN ExpandCount(ofs_x + cb.x - width(g1))
                 ELSE 0
        g2 == IF width(g1) <= ofs_x + cb.x THEN expand_x(g1, right, st) ELSE g1
        top == IF ofs_y0 < 0 THEN ExpandCount(abs(ofs_y0)) ELSE 0
        g3 == IF ofs_y0 < 0 THEN expand_y(g2, -top, st) ELSE g2
        ofs_y == ofs_y0 + top * CHUNK_LEN
        bottom == IF height(g3) <= ofs_y + cb.y
                  THEN ExpandCount(ofs_y + cb.y - height(g3))
                  ELSE 0
        g4 == IF height(g3) <= ofs_y + cb.y THEN expand_y(g3, bottom, st) ELSE g3
        p == paste_clipboard(g4, ofs_x, ofs_y, cb)
    IN [g |-> p.g, panic |-> p.panic, ofs_x |-> ofs_x, ofs_y |-> ofs_y,
        left |-> left, right |-> right, top |-> top, bottom |-> bottom]

\* clipboards of one cell, of a few cells and longer than two chunks
PasteDims == {<<1, 1>>, <<2, 3>>, <<3, 2>>, <<34, 1>>, <<1, 34>>}

PasteClips == {[x |-> d[1], y |-> d[2], cells |-> [k \in 1..(d[1] * d[2]) |-> 1]] : d \in PasteDims}

\* the cells Board::clicked returns for the cursor: SquareGrid::clicked and
\* HexGrid::clicked let x = width() and y = height() through
CursorCells(g) == (0..width(g)) \X (0..height(g))

PasteInit ==
    /\ rule \in {[nb |-> "Moore", n |-> 1, slider |-> FALSE]}
    /\ grid = World2D_new(rule, 1, 1)
    /\ clipboard \in {<<cb>> : cb \in PasteClips}
    /\ rng = 0
    /\ last = Op("new", 0, 0, TRUE)
    /\ swaps = 0
    /\ calls = 0
    /\ ops = 0
    /\ kind = "Generic"
    /\ gs_n = 0
    /\ panicked = FALSE
    /\ query = <<>>
    /\ app = App_new
    /\ wrap = WrapApp_new

\* a frame with the cursor on a cell, a clipboard and the paste key. The
\* preview drawn first computes `cursor_x - cb.width() / 2` in usize: when
\* that underflows, a build with overflow checks panics there, and a build
\* without them wraps, paints nothing and goes on to the paste
PasteKey ==
    /\ ops < MaxPastes
    /\ ~panicked
    /\ clipboard # <<>>
    /\ \E c \in CursorCells(grid) : \E checked \in BOOLEAN :
        LET cb == clipboard[1]
            underflow == c[1] < cb.x \div 2 \/ c[2] < cb.y \div 2
            s == PasteHandler(grid, rule, c[1], c[2], cb)
        IN IF underflow /\ checked
           THEN /\ panicked' = TRUE
                /\ grid' = grid
                /\ last' = Op("preview", c[1], c[2], FALSE)
           ELSE /\ panicked' = s.panic
                /\ grid' = s.g
                /\ last' = [op |-> "paste_key", a |-> c[1], b |-> c[2], ok |-> ~s.panic,
                            ofs_x |-> s.ofs_x, ofs_y |-> s.ofs_y,
                            left |-> s.left, right |-> s.right,
                            top |-> s.top, bottom |-> s.bottom,
                            w |-> width(grid), h |-> height(grid)]
    /\ ops' = ops + 1
    /\ UNCHANGED <<rule, rng, swaps, calls, kind, gs_n, clipboard, query, app, wrap>>

PasteNext == PasteKey

SpecPaste == PasteInit /\ [][PasteNext]_vars

\* ------------------------------------------------------------------------
\* Neighbors::neighbors on the extents a Grid has: width() and height() are
\* num_chunks_x * CHUNK_LEN and num_chunks_y * CHUNK_LEN

\* the extents of the boards of up to MaxChunks chunks
Extents ==
    {<<cx * CHUNK_LEN, cy * CHUNK_LEN>> : <<cx, cy>> \in
        {c \in (1..MaxChunks) \X (1..MaxChunks) : c[1] * c[2] <= MaxChunks}}

\* a cell of a board and the neighbourhood asked for
AdjacencyInit ==
    /\ \E nb \in Topologies : \E e \in Extents :
       \E x \in 0..(e[1] - 1) : \E y \in 0..(e[2] - 1) :
          query = <<[nb |-> nb, x |-> x, y |-> y, w |-> e[1], h |-> e[2],
                     done |-> FALSE, out |-> <<>>]>>
    /\ rule = [nb |-> "VonNeumann", n |-> 1, slider |-> FALSE]
    /\ grid = World2D_new(rule, 1, 1)
    /\ rng = 0
    /\ last = Op("new", 0, 0, TRUE)
    /\ swaps = 0
    /\ calls = 0
    /\ ops = 0
    /\ kind = "Generic"
    /\ gs_n = 0
    /\ clipboard = <<>>
    /\ panicked = FALSE
    /\ app = App_new
    /\ wrap = WrapApp_new

\* N::neighbors(x, y, self.board.width(), self.board.height())
AdjacencyCall ==
    /\ ~query[1].done
    /\ query' = <<[query[1] EXCEPT
                     !.done = TRUE,
                     !.out = neighbors(query[1].nb, query[1].x, query[1].y,
                                       query[1].w, query[1].h)]>>
    /\ UNCHANGED <<grid, rule, rng, last, swaps, calls, ops, kind, gs_n,
                   clipboard, panicked, app, wrap>>

AdjacencyNext == AdjacencyCall

SpecAdjacency == AdjacencyInit /\ [][AdjacencyNext]_vars

\* ------------------------------------------------------------------------
\* GeneralizedLifeGameRule (lifegame.rs): the rule string `survive/birth`.
\* A string is a sequence of characters; alive and birth are ArrayVec<u32, 9>

DigitChars == <<"0", "1", "2", "3", "4", "5", "6", "7", "8", "9">>

\* char::is_ascii_digit
is_ascii_digit(c) == \E k \in 1..Len(DigitChars) : DigitChars[k] = c

\* c.to_digit(10).unwrap()
to_digit(c) == (CHOOSE k \in 1..Len(DigitChars) : DigitChars[k] = c) - 1

\* x.to_string() for x < 10
to_string(x) == DigitChars[x + 1]

\* GeneralizedLifeGameRule::is_valid_rule
is_valid_rule(s) ==
    LET has_separator == Cardinality({k \in 1..Len(s) : s[k] = "/"}) = 1
        has_digit_only == \A k \in 1..Len(s) : is_ascii_digit(s[k]) \/ s[k] = "/"
    IN has_separator /\ has_digit_only

\* GeneralizedLifeGameRule::parse_rule: None is <<>>, Some((alive, birth)) is
\* <<[alive, birth]>>; split('/') cuts a valid rule at its one separator
parse_rule(s) ==
    IF ~is_valid_rule(s)
    THEN <<>>
    ELSE LET i == CHOOSE k \in 1..Len(s) : s[k] = "/"
         IN <<[alive |-> [k \in 1..(i - 1) |-> to_digit(s[k])],
               birth |-> [k \in 1..(Len(s) - i) |-> to_digit(s[i + k])]]>>

\* ArrayVec::<u32, 9>::from_iter: it panics when the iterator has more
\* elements than the capacity
ArrayVec_from_iter(v) ==
    IF Len(v) > ARRAYVEC_CAP
    THEN [v |-> <<>>, panic |-> TRUE]
    ELSE [v |-> v, panic |-> FALSE]

\* GeneralizedLifeGameRule::new: the rule string is formatted from the counts,
\* then the two ArrayVecs are collected
GeneralizedLifeGameRule_new(alive, birth) ==
    LET a == ArrayVec_from_iter(alive)
        b == ArrayVec_from_iter(birth)
    IN [alive |-> a.v, birth |-> b.v,
        rule |-> [k \in 1..Len(alive) |-> to_string(alive[k])] \o <<"/">>
                 \o [k \in 1..Len(birth) |-> to_string(birth[k])],
        show_err_msg_about_rule |-> FALSE,
        panic |-> a.panic \/ b.panic]

\* GeneralizedLifeGameRule::default: "23/3"
GeneralizedLifeGameRule_default == GeneralizedLifeGameRule_new(<<2, 3>>, <<3>>)

\* GeneralizedLifeGameRule::from_rule: assert!(is_valid_rule(rule)), then new
from_rule(s) ==
    IF ~is_valid_rule(s)
    THEN [GeneralizedLifeGameRule_default EXCEPT !.panic = TRUE]
    ELSE GeneralizedLifeGameRule_new(parse_rule(s)[1].alive, parse_rule(s)[1].birth)

\* the Apply button of GeneralizedLifeGameRule::ui on the text s
ui_apply(lr, s) ==
    IF parse_rule(s) # <<>>
    THEN LET a == ArrayVec_from_iter(parse_rule(s)[1].alive)
             b == ArrayVec_from_iter(parse_rule(s)[1].birth)
         IN [lr EXCEPT !.alive = a.v, !.birth = b.v, !.rule = s,
                       !.panic = a.panic \/ b.panic]
    ELSE [lr EXCEPT !.rule = s, !.show_err_msg_about_rule = TRUE]

Repeat(c, n) == [k \in 1..n |-> c]

\* the texts typed into the rule field: a run of one digit, a separator or
\* something else in its place, and a second run
RuleTexts ==
    {Repeat(c, n) \o sep \o Repeat(d, m) :
        c \in {"2", "8"}, d \in {"3", "0"}, n \in 0..MaxDigits, m \in 0..2,
        sep \in {<<"/">>, <<>>, <<"/", "/">>, <<"x">>, <<"3", "/", "6">>}}

LifeRuleInit ==
    /\ query \in {<<[rule |-> s, done |-> FALSE, by |-> "none", made |-> <<>>]>> :
                     s \in RuleTexts}
    /\ rule = [nb |-> "Moore", n |-> 1, slider |-> FALSE]
    /\ grid = World2D_new(rule, 1, 1)
    /\ rng = 0
    /\ last = Op("new", 0, 0, TRUE)
    /\ swaps = 0
    /\ calls = 0
    /\ ops = 0
    /\ kind = "GeneralizedLifeGame"
    /\ gs_n = 0
    /\ clipboard = <<>>
    /\ panicked = FALSE
    /\ app = App_new
    /\ wrap = WrapApp_new

\* a click on the Life-Like card: the app is built when the text is valid
LifeLikeCard ==
    /\ ~query[1].done
    /\ is_valid_rule(query[1].rule)
    /\ LET lr == from_rule(query[1].rule)
       IN /\ query' = <<[query[1] EXCEPT !.done = TRUE, !.by = "card", !.made = <<lr>>]>>
          /\ panicked' = lr.panic
    /\ UNCHANGED <<grid, rule, rng, last, swaps, calls, ops, kind, gs_n,
                   clipboard, app, wrap>>

\* the text typed into the rule field of a running app, then Apply
LifeLikeApply ==
    /\ ~query[1].done
    /\ LET lr == ui_apply(GeneralizedLifeGameRule_default, query[1].rule)
       IN /\ query' = <<[query[1] EXCEPT !.done = TRUE, !.by = "apply", !.made = <<lr>>]>>
          /\ panicked' = lr.panic
    /\ UNCHANGED <<grid, rule, rng, last, swaps, calls, ops, kind, gs_n,
                   clipboard, app, wrap>>

LifeRuleNext == LifeLikeCard \/ LifeLikeApply

SpecLifeRule == LifeRuleInit /\ [][LifeRuleNext]_vars

\* ------------------------------------------------------------------------
\* the synchronous transition, stated on its own

Cells(g) == (0..(width(g) - 1)) \X (0..(height(g) - 1))

NumCells(g) == width(g) * height(g)

\* the board whose every cell is the rule's value on g's neighbourhood of it
SyncGen(g, r) ==
    [g EXCEPT !.chunks =
        [c \in 1..Len(g.chunks) |->
            [k \in 1..256 |->
                UpdateCell(g, r,
                           ((c - 1) % g.num_chunks_x) * 16 + ((k - 1) % 16),
                           ((c - 1) \div g.num_chunks_x) * 16 + ((k - 1) \div 16))]]]

RECURSIVE StepN(_, _, _)
StepN(g, r, k) == IF k = 0 THEN g ELSE SyncGen(StepN(g, r, k - 1), r)

\* the position of cell (x, y) in the order the update loop visits the cells
TraversalPos(g, x, y) ==
    ((y \div 16) * g.num_chunks_x + (x \div 16)) * 256 + (y % 16) * 16 + (x % 16)

FailingCells(g, r) == {p \in Cells(g) : UpdateCell(g, r, p[1], p[2]) = Err}

Min(S) == CHOOSE k \in S : \A j \in S : k <= j

\* the position of the first cell of g, in that order, the rule fails on
FirstFailure(g, r) ==
    Min({TraversalPos(g, p[1], p[2]) : p \in FailingCells(g, r)})

\* ------------------------------------------------------------------------
\* properties

C2_FailedUpdateKeepsChunks ==
    [][ (last'.op = "update" /\ ~last'.ok) => grid'.chunks = grid.chunks ]_vars

\* an update returned an error after it had committed a micro-step
C2_Witness ==
    /\ last.op = "update"
    /\ ~last.ok
    /\ swaps >= 1
    /\ grid.chunks # grid.buffer

\* C3: when Rule.update fails in a micro-step, update returns at once: it calls
\* Rule.update for no further cell, it does not swap for that micro-step, and
\* the visible chunks are those of the start of that micro-step.
C3_FailedMicroStepIsNotCommitted ==
    [][ (last'.op = "update" /\ ~last'.ok) =>
            LET start == StepN(grid, rule, swaps')
            IN /\ swaps' < iteration_per_step(rule)
               /\ grid'.chunks = start.chunks
               /\ FailingCells(start, rule) # {}
               /\ calls' = swaps' * NumCells(grid) + FirstFailure(start, rule) + 1 ]_vars

\* an update failed in its second micro-step, at a cell that is not the first
C3_Witness ==
    /\ last.op = "update"
    /\ ~last.ok
    /\ swaps >= 1
    /\ calls > swaps * NumCells(grid) + 1

\* C4: iteration_per_step() is at least 1 for every rule in every reachable
\* configuration, the Gray-Scott slider included, so that every requested
\* step runs at least one micro-step.
C4_IterationPerStepPositive ==
    /\ RuleIterationPerStep(kind, gs_n) >= 1
    /\ (last.op = "update" => swaps >= 1)

\* a step was requested with the Gray-Scott slider at its lowest value
C4_Witness ==
    /\ kind = "GrayScott"
    /\ gs_n = GS_SLIDER_MIN
    /\ last.op = "update"

\* C5: an update that succeeds runs exactly iteration_per_step() micro-steps,
\* each over every cell once and each followed by one swap; the visible board
\* is the n-fold synchronous transition of the board of before the call.
C5_StepIsIteratedTransition ==
    [][ (last'.op = "update" /\ last'.ok) =>
            LET n == IF rule.slider THEN rule.n ELSE 1
            IN /\ swaps' = n
               /\ calls' = n * NumCells(grid)
               /\ grid'.chunks = StepN(grid, rule, n).chunks
               /\ grid'.buffer = IF n = 0 THEN grid.buffer
                                 ELSE StepN(grid, rule, n - 1).chunks ]_vars

\* an update of two micro-steps succeeded and moved the board
C5_Witness ==
    /\ last.op = "update"
    /\ last.ok
    /\ swaps = 2
    /\ calls = 2 * NumCells(grid)
    /\ grid.chunks # grid.buffer

\* C6: chunks and buffer both hold num_chunks_x * num_chunks_y chunks of 256
\* cells, width is 16 * num_chunks_x and height is 16 * num_chunks_y, in every
\* reachable state.
C6_GridShape ==
    /\ Len(grid.chunks) = grid.num_chunks_x * grid.num_chunks_y
    /\ Len(grid.buffer) = grid.num_chunks_x * grid.num_chunks_y
    /\ \A c \in 1..Len(grid.chunks) : Len(grid.chunks[c]) = 256
    /\ \A c \in 1..Len(grid.buffer) : Len(grid.buffer[c]) = 256
    /\ width(grid) = 16 * grid.num_chunks_x
    /\ height(grid) = 16 * grid.num_chunks_y

\* the board has grown along both axes
C6_Witness ==
    /\ last.op \in {"expand_x", "expand_y"}
    /\ grid.num_chunks_x >= 2
    /\ grid.num_chunks_y >= 2

\* C7: expand_x(n, fill) with n # 0 keeps every old cell: the old cell (x, y)
\* is at (x + 16 * |n|, y) when n < 0 and at (x, y) when n > 0.
C7_ExpandXKeepsCells ==
    [][ (last'.op = "expand_x" /\ last'.a # 0) =>
            LET shift == IF last'.a < 0 THEN 16 * abs(last'.a) ELSE 0
            IN \A p \in Cells(grid) :
                   cell_at(grid', p[1] + shift, p[2]) = cell_at(grid, p[1], p[2]) ]_vars

\* a board with a cell that differs from the fill was expanded to the left
C7_Witness ==
    /\ last.op = "expand_x"
    /\ last.a < 0
    /\ \E p \in Cells(grid) :
        /\ p[1] >= 16 * abs(last.a)
        /\ cell_at(grid, p[1], p[2]) \notin {0, last.b}

\* C8: expand_y(n, fill) with n # 0 keeps every old cell: the old cell (x, y)
\* is at (x, y + 16 * |n|) when n < 0 and at (x, y) when n > 0.
C8_ExpandYKeepsCells ==
    [][ (last'.op = "expand_y" /\ last'.a # 0) =>
            LET shift == IF last'.a < 0 THEN 16 * abs(last'.a) ELSE 0
            IN \A p \in Cells(grid) :
                   cell_at(grid', p[1], p[2] + shift) = cell_at(grid, p[1], p[2]) ]_vars

\* a board with a cell that differs from the fill was expanded upwards
C8_Witness ==
    /\ last.op = "expand_y"
    /\ last.a < 0
    /\ \E p \in Cells(grid) :
        /\ p[2] >= 16 * abs(last.a)
        /\ cell_at(grid, p[1], p[2]) \notin {0, last.b}

\* the columns and the rows an expansion by n added
NewCols(g, n) ==
    IF n < 0 THEN 0..(16 * abs(n) - 1)
    ELSE (width(g) - 16 * abs(n))..(width(g) - 1)

NewRows(g, n) ==
    IF n < 0 THEN 0..(16 * abs(n) - 1)
    ELSE (height(g) - 16 * abs(n))..(height(g) - 1)

\* C9: after expand_x(n, fill) or expand_y(n, fill) every cell the expansion
\* added, in every new chunk, equals fill.
C9_NewCellsEqualFill ==
    /\ (last.op = "expand_x" /\ last.a # 0) =>
           \A x \in NewCols(grid, last.a), y \in 0..(height(grid) - 1) :
               cell_at(grid, x, y) = last.b
    /\ (last.op = "expand_y" /\ last.a # 0) =>
           \A x \in 0..(width(grid) - 1), y \in NewRows(grid, last.a) :
               cell_at(grid, x, y) = last.b

\* an expansion with a fill that is not the default state added cells
C9_Witness ==
    /\ last.op \in {"expand_x", "expand_y"}
    /\ last.a > 0
    /\ last.b # default_state(rule)
    /\ cell_at(grid, 0, 0) # last.b
    /\ cell_at(grid, width(grid) - 1, height(grid) - 1) = last.b

\* C10: the chunk counts never decrease; expand_x(n, _) adds |n| to
\* num_chunks_x and leaves num_chunks_y, expand_y(n, _) adds |n| to
\* num_chunks_y and leaves num_chunks_x, and no other operation changes them.
C10_ChunkCounts ==
    [][ /\ grid'.num_chunks_x >= grid.num_chunks_x
        /\ grid'.num_chunks_y >= grid.num_chunks_y
        /\ last'.op = "expand_x" =>
               /\ grid'.num_chunks_x = grid.num_chunks_x + abs(last'.a)
               /\ grid'.num_chunks_y = grid.num_chunks_y
        /\ last'.op = "expand_y" =>
               /\ grid'.num_chunks_y = grid.num_chunks_y + abs(last'.a)
               /\ grid'.num_chunks_x = grid.num_chunks_x
        /\ last'.op \notin {"expand_x", "expand_y"} =>
               /\ grid'.num_chunks_x = grid.num_chunks_x
               /\ grid'.num_chunks_y = grid.num_chunks_y ]_vars

\* an operation that is no expansion ran on a board that had been expanded
C10_Witness ==
    /\ last.op \in {"clear", "randomize", "update", "paste", "edit", "swap_buffer"}
    /\ grid.num_chunks_x + grid.num_chunks_y >= 3

\* C11: expand_x(0, fill) and expand_y(0, fill) leave num_chunks_x,
\* num_chunks_y, every cell of chunks and the buffer unchanged, for every fill.
C11_ExpandZeroIsNoOp ==
    [][ (last'.op \in {"expand_x", "expand_y"} /\ last'.a = 0) =>
            /\ grid'.num_chunks_x = grid.num_chunks_x
            /\ grid'.num_chunks_y = grid.num_chunks_y
            /\ grid'.chunks = grid.chunks
            /\ grid'.buffer = grid.buffer ]_vars

\* an expansion by 0 with a fill that differs from cells of the board and of
\* the buffer
C11_Witness ==
    /\ last.op = "expand_x"
    /\ last.a = 0
    /\ \E p \in Cells(grid) : cell_at(grid, p[1], p[2]) # last.b
    /\ \E c \in 1..Len(grid.buffer) : grid.buffer[c][1] # last.b

\* a is b, or next to b on a ring of n positions
RingNear(a, b, n) == (a - b) % n \in {0, 1 % n, (n - 1) % n}

\* C12: for each topology, for every w >= 1, h >= 1 and every in-range cell,
\* neighbors(x, y, w, h) returns exactly N coordinates (4, 6 or 8), each within
\* 0..w-1 and 0..h-1 and each at most one step from the cell on the torus: a
\* step off an edge lands on the opposite edge.
C12_NeighborsInRangeAndWrap ==
    \A k \in 1..Len(query) :
        LET q == query[k]
            n == CASE q.nb = "VonNeumann" -> 4 [] q.nb = "Hex" -> 6 [] q.nb = "Moore" -> 8
        IN /\ Len(q.out) = n
           /\ \A m \in 1..Len(q.out) :
                /\ q.out[m][1] \in 0..(q.w - 1)
                /\ q.out[m][2] \in 0..(q.h - 1)
                /\ RingNear(q.out[m][1], q.x, q.w)
                /\ RingNear(q.out[m][2], q.y, q.h)
           /\ q.x = 0 => \E m \in 1..Len(q.out) : q.out[m][1] = q.w - 1
           /\ q.x = q.w - 1 => \E m \in 1..Len(q.out) : q.out[m][1] = 0
           /\ q.y = 0 => \E m \in 1..Len(q.out) : q.out[m][2] = q.h - 1
           /\ q.y = q.h - 1 => \E m \in 1..Len(q.out) : q.out[m][2] = 0

\* the neighbours of a corner cell of a hexagonal board reach all four edges
C12_Witness ==
    /\ query # <<>>
    /\ query[1].nb = "Hex"
    /\ query[1].w >= 3
    /\ query[1].h >= 3
    /\ query[1].x = 0
    /\ query[1].y = query[1].h - 1
    /\ \E m \in 1..6 : query[1].out[m] = <<query[1].w - 1, 0>>

\* C13: VonNeumannNeighborhood::neighbors returns, in this order, north
\* (x, (y-1) mod h), east ((x+1) mod w, y), west ((x-1) mod w, y) and south
\* (x, (y+1) mod h); neighbors(0, 0, 10, 10) contains (9, 0) and (0, 9).
C13_VonNeumannOrder ==
    \A k \in 1..Len(query) :
        LET q == query[k]
        IN q.nb = "VonNeumann" =>
            /\ q.out = << <<q.x, (q.y - 1) % q.h>>, <<(q.x + 1) % q.w, q.y>>,
                          <<(q.x - 1) % q.w, q.y>>, <<q.x, (q.y + 1) % q.h>> >>
            /\ (q.x = 0 /\ q.y = 0 /\ q.w = 10 /\ q.h = 10) =>
                   /\ \E m \in 1..4 : q.out[m] = <<9, 0>>
                   /\ \E m \in 1..4 : q.out[m] = <<0, 9>>

\* the von Neumann neighbours of the corner of the 10 x 10 board
C13_Witness ==
    /\ query # <<>>
    /\ query[1].nb = "VonNeumann"
    /\ query[1].w = 10
    /\ query[1].h = 10
    /\ query[1].out[3] = <<9, 0>>
    /\ query[1].out[1] = <<0, 9>>

\* C14: a successful Grid::clear(rule) sets every cell of the current
\* generation to rule.default_state(), keeps num_chunks_x and num_chunks_y,
\* and is idempotent: a clear of the cleared grid changes nothing.
C14_ClearSetsDefaultAndIsIdempotent ==
    [][ last'.op = "clear" =>
            /\ grid'.num_chunks_x = grid.num_chunks_x
            /\ grid'.num_chunks_y = grid.num_chunks_y
            /\ Len(grid'.chunks) = Len(grid.chunks)
            /\ \A p \in Cells(grid') : cell_at(grid', p[1], p[2]) = default_state(rule)
            /\ clear(grid', rule) = grid' ]_vars

\* a board of several chunks, expanded with a fill that is not the default
\* state, was cleared
C14_Witness ==
    /\ last.op = "clear"
    /\ Len(grid.chunks) >= 2
    /\ \E c \in 1..Len(grid.buffer) : grid.buffer[c][1] # default_state(rule)
    /\ cell_at(grid, width(grid) - 1, height(grid) - 1) = default_state(rule)

\* C15: Grid::randomize calls Rule.randomize once per cell and hands out the
\* draws in one fixed order, the chunks in storage order and the cells of a
\* chunk row by row: the cell at traversal position k gets draw number k, so
\* the board is a function of the rng state and of the shape.
C15_RandomizeOrder ==
    [][ last'.op = "randomize" =>
            /\ rng' = rng + NumCells(grid)
            /\ \A p \in Cells(grid) :
                   cell_at(grid', p[1], p[2]) =
                       RngWord(rng + TraversalPos(grid, p[1], p[2])) % 3 ]_vars

\* a board of several chunks was randomized and its chunks differ
C15_Witness ==
    /\ last.op = "randomize"
    /\ Len(grid.chunks) >= 2
    /\ rng = NumCells(grid)
    /\ grid.chunks[1] # grid.chunks[2]

\* C16: for every clipboard, of any width and height, square or not, with
\* masked cells or without, four applications of rotate() give a clipboard
\* with the same width, the same height and the same Option at every (x, y).
C16_RotateFourTimesIsIdentity ==
    \A k \in 1..Len(clipboard) :
        LET r1 == rotate(clipboard[k])
            r2 == rotate(r1.cb)
            r3 == rotate(r2.cb)
            r4 == rotate(r3.cb)
        IN /\ ~r1.panic /\ ~r2.panic /\ ~r3.panic /\ ~r4.panic
           /\ r4.cb.x = clipboard[k].x
           /\ r4.cb.y = clipboard[k].y
           /\ r4.cb.cells = clipboard[k].cells

\* a rotated clipboard that is not square, has a masked cell and two
\* different states, and that half a turn does not map to itself
C16_Witness ==
    /\ last.op = "rotate"
    /\ clipboard # <<>>
    /\ clipboard[1].x # clipboard[1].y
    /\ \E a, b, c \in 1..Len(clipboard[1].cells) :
        /\ clipboard[1].cells[a] = None
        /\ clipboard[1].cells[b] = 1
        /\ clipboard[1].cells[c] = 2
    /\ rotate(rotate(clipboard[1]).cb).cb # clipboard[1]

\* C17: one rotate() of a clipboard of width W and height H gives a clipboard
\* of width H and height W in which the entry that was at (x, y) is at
\* (y, W-1-x), masked entries included, and no assertion on the bounds of
\* either clipboard fails.
C17_RotateMapping ==
    [][ last'.op = "rotate" =>
            LET old == clipboard[1]
                new == clipboard'[1]
            IN /\ ~panicked'
               /\ last'.ok
               /\ new.x = old.y
               /\ new.y = old.x
               /\ Len(new.cells) = old.x * old.y
               /\ \A x \in 0..(old.x - 1), y \in 0..(old.y - 1) :
                      new.cells[y + (old.x - 1 - x) * new.x + 1]
                          = old.cells[x + y * old.x + 1] ]_vars

\* a clipboard wider than high after its rotation, its first cell masked and
\* its last cell not
C17_Witness ==
    /\ last.op = "rotate"
    /\ clipboard # <<>>
    /\ clipboard[1].x > clipboard[1].y
    /\ clipboard[1].y >= 1
    /\ clipboard[1].cells[1] = None
    /\ clipboard[1].cells[Len(clipboard[1].cells)] # None

\* the clipboard entries that are not masked, as <<i, j>>
Unmasked(cb) ==
    {e \in (0..(cb.x - 1)) \X (0..(cb.y - 1)) : cb.cells[e[1] + e[2] * cb.x + 1] # None}

\* C18: Grid::paste_clipboard(xofs, yofs, cb) with the footprint inside the
\* grid sets the cell (xofs+i, yofs+j) to v for every entry cb(i, j) = Some(v),
\* leaves every cell under a masked entry and every cell outside the
\* footprint, keeps the shape of the grid, and returns Ok.
C18_PasteInsideGrid ==
    [][ ( /\ last'.op = "paste_clipboard"
          /\ last'.a + last'.cb.x <= width(grid)
          /\ last'.b + last'.cb.y <= height(grid) ) =>
            LET cb == last'.cb
            IN /\ last'.ok
               /\ ~panicked'
               /\ grid'.num_chunks_x = grid.num_chunks_x
               /\ grid'.num_chunks_y = grid.num_chunks_y
               /\ grid'.buffer = grid.buffer
               /\ \A p \in Cells(grid) :
                      LET e == <<p[1] - last'.a, p[2] - last'.b>>
                      IN cell_at(grid', p[1], p[2]) =
                             IF e \in Unmasked(cb)
                             THEN cb.cells[e[1] + e[2] * cb.x + 1]
                             ELSE cell_at(grid, p[1], p[2]) ]_vars

\* a paste inside the board wrote a cell and kept a cell that is not in the
\* default state under a masked entry
C18_Witness ==
    /\ last.op = "paste_clipboard"
    /\ last.ok
    /\ last.a + last.cb.x <= width(grid)
    /\ last.b + last.cb.y <= height(grid)
    /\ Unmasked(last.cb) # {}
    /\ \E i \in 0..(last.cb.x - 1), j \in 0..(last.cb.y - 1) :
        /\ <<i, j>> \notin Unmasked(last.cb)
        /\ cell_at(grid, last.a + i, last.b + j) # 0

\* C19: a paste with an unmasked clipboard entry that maps outside the grid
\* is reported to the caller as an error it can recover from, and leaves
\* every cell of the grid unchanged.
C19_PasteOutsideIsAnError ==
    [][ ( /\ last'.op = "paste_clipboard"
          /\ \E e \in Unmasked(last'.cb) :
                 \/ last'.a + e[1] >= width(grid)
                 \/ last'.b + e[2] >= height(grid) ) =>
            /\ ~panicked'
            /\ ~last'.ok
            /\ grid'.chunks = grid.chunks ]_vars

\* a paste beyond the board panicked after it had written its first entry
C19_Witness ==
    /\ last.op = "paste_clipboard"
    /\ panicked
    /\ <<0, 0>> \in Unmasked(last.cb)
    /\ last.a < width(grid)
    /\ last.b < height(grid)
    /\ cell_at(grid, last.a, last.b) = last.cb.cells[1]
    /\ cell_at(grid, last.a, last.b) # 0

\* C20: the copy of a selected region ((sx, sy), (ex, ey)) makes a clipboard
\* of width ex-sx+1 and height ey-sy+1 whose entry (i, j) is Some(cell
\* (sx+i, sy+j)) where the grid has that cell and masked where it has not;
\* the grid is unchanged.
C20_CopyRegion ==
    [][ last'.op = "copy" =>
            LET cb == clipboard'[1]
                sx == last'.a
                sy == last'.b
            IN /\ cb.x = last'.ex - sx + 1
               /\ cb.y = last'.ey - sy + 1
               /\ Len(cb.cells) = cb.x * cb.y
               /\ \A i \in 0..(last'.ex - sx), j \in 0..(last'.ey - sy) :
                      cb.cells[i + j * cb.x + 1] =
                          IF <<sx + i, sy + j>> \in Cells(grid)
                          THEN cell_at(grid, sx + i, sy + j)
                          ELSE None
               /\ grid' = grid ]_vars

\* a copy of a selection that reaches beyond the board: masked entries and an
\* entry that is not in the default state
C20_Witness ==
    /\ last.op = "copy"
    /\ clipboard # <<>>
    /\ last.ex >= width(grid)
    /\ \E k \in 1..Len(clipboard[1].cells) : clipboard[1].cells[k] = None
    /\ \E k \in 1..Len(clipboard[1].cells) : clipboard[1].cells[k] \in {1, 2}

\* C21: a failure of a Rule method reached through World2D::new,
\* World2D::default, clear, randomize or update is delivered to the caller as
\* an error value: the operation does not panic, and it reports not ok
\* whenever the method it calls fails
C21_RuleFailureIsAnErrorValue ==
    /\ ~panicked
    /\ (last.op = "clear" /\ Fails(rule, "default_state")) => ~last.ok
    /\ (last.op = "randomize" /\ Fails(rule, "randomize")) => ~last.ok
    /\ (last.op = "update" /\ Fails(rule, "update")) => ~last.ok

\* World2D::new was called with a rule whose default_state fails
C21_Witness ==
    /\ last.op = "new"
    /\ Fails(rule, "default_state")
    /\ panicked

\* C22: when the world's update returns an error in a frame that stepped it
\* because the app was running, the frame records the error message and
\* leaves running = FALSE (unless the user pressed Run in that same frame),
\* so the next frame does not step the world
C22_UpdateErrorStopsRunning ==
    (last.op \in {"frame_idle", "frame_step", "frame_reset", "frame_randomize"}
        /\ last.a = 1 /\ ~last.ok)
    => (app.err /\ ~app.running)

\* a frame without input stepped the world and the update failed
C22_Witness ==
    /\ last.op = "frame_idle"
    /\ last.a = 1
    /\ ~last.ok
    /\ app.err
    /\ app.running

\* C23: Board::clicked returns None for a pointer left of, above, right of or
\* below the square board, and every Some((col, row)) it returns, on either
\* board, has col < width() and row < height()
C23_ClickedCellIsOnBoard ==
    (query # <<>> /\ query[1].done) =>
        LET q == query[1]
        IN /\ q.out # <<>> => (q.out[1][1] < width(grid) /\ q.out[1][2] < height(grid))
           /\ (q.board = "SquareGrid"
                 /\ (q.u < 0 \/ q.v < 0 \/ q.u >= 2 * width(grid) \/ q.v >= 2 * height(grid)))
              => q.out = <<>>

\* a press on the first half cell right of the last column of the square board
C23_Witness ==
    /\ query # <<>>
    /\ query[1].done
    /\ query[1].board = "SquareGrid"
    /\ query[1].u = 2 * width(grid)
    /\ query[1].v = 0
    /\ query[1].out = << <<width(grid), 0>> >>

\* C24: four generations of the Life rule on the 16 x 16 torus move the
\* glider drawn at (1,0), (2,1), (0,2), (1,2), (2,2) to (2,1), (3,2), (1,3),
\* (2,3), (3,3), all other cells Dead; the same holds from every place the
\* glider is drawn at: it is moved by (+1, +1)
C24_GliderMovesDiagonally ==
    (rule.law = "LifeGame" /\ swaps = 4) =>
        /\ Lit(grid) = Shifted(Glider, last.a + 1, last.b + 1, CHUNK_LEN, CHUNK_LEN)
        /\ (last.a = 0 /\ last.b = 0) =>
              Lit(grid) = {<<2, 1, Alive>>, <<3, 2, Alive>>, <<1, 3, Alive>>,
                           <<2, 3, Alive>>, <<3, 3, Alive>>}

\* the fourth generation of the glider drawn at the corner
C24_Witness ==
    /\ rule.law = "LifeGame"
    /\ swaps = 4
    /\ last.a = 0
    /\ last.b = 0
    /\ cell_at(grid, 3, 3) = Alive
    /\ cell_at(grid, 1, 0) = Dead

\* C25: one Wireworld generation turns the wire [Head, Wire, Wire, Wire, Wire]
\* in Void into [Tail, Head, Wire, Wire, Wire] and the second one into
\* [Wire, Tail, Head, Wire, Wire]; every other cell stays Void
C25_ElectronMovesRight ==
    rule.law = "WireWorld" =>
        /\ swaps = 1 =>
              Lit(grid) = Shifted({<<0, 0, ElectronTail>>, <<1, 0, ElectronHead>>,
                                   <<2, 0, Wire>>, <<3, 0, Wire>>, <<4, 0, Wire>>},
                                  last.a, last.b, CHUNK_LEN, CHUNK_LEN)
        /\ swaps = 2 =>
              Lit(grid) = Shifted({<<0, 0, Wire>>, <<1, 0, ElectronTail>>,
                                   <<2, 0, ElectronHead>>, <<3, 0, Wire>>, <<4, 0, Wire>>},
                                  last.a, last.b, CHUNK_LEN, CHUNK_LEN)

\* the second generation of the wire drawn at the corner
C25_Witness ==
    /\ rule.law = "WireWorld"
    /\ swaps = 2
    /\ last.a = 0
    /\ last.b = 0
    /\ cell_at(grid, 2, 0) = ElectronHead
    /\ cell_at(grid, 1, 0) = ElectronTail
    /\ cell_at(grid, 0, 0) = Wire

\* the sub-application of w with the given id
SubApp(w, id) == w.apps[CHOOSE k \in 1..Len(w.apps) : w.apps[k].id = id]

\* the ids of the sub-applications whose world was updated between w and v
Updated(w, v) ==
    {id \in AppIds(w) \cap AppIds(v) : SubApp(v, id).gen # SubApp(w, id).gen}

\* C26: a frame of WrapApp::update updates at most one sub-application, the
\* one that has the focus; with focus None it updates none, and a
\* sub-application without the focus keeps its generation even when it is
\* running
C26_OnlyFocusedAppIsUpdated ==
    [][/\ Cardinality(Updated(wrap, wrap')) <= 1
       /\ \A id \in Updated(wrap, wrap') :
             /\ wrap'.focus # None
             /\ wrap'.apps[wrap'.focus + 1].id = id
       /\ \A id \in AppIds(wrap) \cap AppIds(wrap') :
             (wrap'.focus = None \/ wrap'.apps[wrap'.focus + 1].id # id)
                => SubApp(wrap', id).gen = SubApp(wrap, id).gen]_vars

\* two running sub-applications after a frame without a click: the focused
\* one has been updated, the other one has not
C26_Witness ==
    /\ last.op = "tab_idle"
    /\ Len(wrap.apps) = 2
    /\ wrap.focus = 1
    /\ wrap.apps[1].running
    /\ wrap.apps[1].gen = 0
    /\ wrap.apps[2].running
    /\ wrap.apps[2].gen > 0

\* C29: after any sequence of opening, selecting (Home included) and closing
\* tabs, focus is None or less than apps.len(); closing a tab other than the
\* focused one leaves the focus on the same sub-application
C29_FocusStaysValid ==
    /\ [](wrap.focus = None \/ (0 <= wrap.focus /\ wrap.focus < Len(wrap.apps)))
    /\ [][(last'.op = "tab_close" /\ wrap.focus # None /\ last'.a # wrap.focus)
            => /\ wrap'.focus # None
               /\ wrap'.focus < Len(wrap'.apps)
               /\ wrap'.apps[wrap'.focus + 1].id = wrap.apps[wrap.focus + 1].id]_vars

\* the first of two tabs was closed while the second one had the focus
C29_Witness ==
    /\ last.op = "tab_close"
    /\ last.a = 0
    /\ Len(wrap.apps) = 1
    /\ wrap.focus = 0
    /\ wrap.apps[1].id = 2

\* the least n >= 0 with lo + n * CHUNK_LEN >= 0
LeastShift(lo, n) == lo + n * CHUNK_LEN >= 0 /\ (n = 0 \/ lo + (n - 1) * CHUNK_LEN < 0)

\* C27: for every cursor cell and every clipboard of at least 1 x 1 cells the
\* paste handler adds to each side the least number of whole chunks with
\* which 0 <= ofs and ofs + clipboard extent <= board extent hold, on both
\* axes, when paste_clipboard is called; the paste does not hit the assertion
\* of cell_at_mut, and a footprint that fits adds no chunk
C27_PasteExpandsJustEnough ==
    last.op = "paste_key" =>
        LET cb == clipboard[1]
            ofs_x0 == last.a - (cb.x \div 2)
            ofs_y0 == last.b - (cb.y \div 2)
        IN /\ last.ok /\ ~panicked
           /\ 0 <= last.ofs_x /\ last.ofs_x + cb.x <= width(grid)
           /\ 0 <= last.ofs_y /\ last.ofs_y + cb.y <= height(grid)
           /\ last.ofs_x = ofs_x0 + last.left * CHUNK_LEN
           /\ last.ofs_y = ofs_y0 + last.top * CHUNK_LEN
           /\ width(grid) = last.w + (last.left + last.right) * CHUNK_LEN
           /\ height(grid) = last.h + (last.top + last.bottom) * CHUNK_LEN
           /\ LeastShift(ofs_x0, last.left)
           /\ LeastShift(ofs_y0, last.top)
           /\ LeastShift(last.w + last.left * CHUNK_LEN - (last.ofs_x + cb.x), last.right)
           /\ LeastShift(last.h + last.top * CHUNK_LEN - (last.ofs_y + cb.y), last.bottom)
           /\ \A k \in 1..(cb.x * cb.y) :
                 cell_at(grid, last.ofs_x + ((k - 1) % cb.x), last.ofs_y + ((k - 1) \div cb.x))
                    = cb.cells[k]

\* the clipboard of 34 x 1 cells pasted with the cursor on the first column:
\* two chunks are added on the left and one on the right
C27_Witness ==
    /\ last.op = "paste_key"
    /\ clipboard[1].x = 34
    /\ last.a = 0
    /\ last.left = 2
    /\ last.right = 1
    /\ last.top = 0
    /\ last.bottom = 0
    /\ width(grid) = 4 * CHUNK_LEN

\* the coordinates in a sequence, as a set
Range(s) == {s[k] : k \in 1..Len(s)}

\* C28: on every extent a Grid has (w and h positive multiples of 16), for
\* each topology, the neighbours of a cell are pairwise distinct, none of them
\* is the cell itself, and the cell is a neighbour of each of its neighbours,
\* also across the wrap seams
C28_AdjacencyIsSymmetric ==
    (query # <<>> /\ query[1].done) =>
        LET q == query[1]
        IN /\ q.w % CHUNK_LEN = 0 /\ q.h % CHUNK_LEN = 0
           /\ Len(q.out) = num_neighbors(q.nb)
           /\ Cardinality(Range(q.out)) = Len(q.out)
           /\ <<q.x, q.y>> \notin Range(q.out)
           /\ \A c \in Range(q.out) :
                 <<q.x, q.y>> \in Range(neighbors(q.nb, c[1], c[2], q.w, q.h))

\* the last cell of the first column of the hexagonal 16 x 16 board: its
\* neighbours lie across both seams
C28_Witness ==
    /\ query # <<>>
    /\ query[1].done
    /\ query[1].nb = "Hex"
    /\ query[1].w = CHUNK_LEN
    /\ query[1].h = CHUNK_LEN
    /\ query[1].x = CHUNK_LEN - 1
    /\ query[1].y = CHUNK_LEN - 1
    /\ query[1].out[6] = <<0, 0>>
    /\ query[1].out[5] = <<CHUNK_LEN - 1, 0>>

\* the digits of the characters s[from..to], one count per character
DigitsOf(s, from, to) == [k \in 1..(to - from + 1) |-> to_digit(s[from + k - 1])]

\* C30: for every rule string that is_valid_rule accepts, of any length and
\* with any repetition, parse_rule returns the digits before and after the
\* '/', and the rule made from it by from_rule / new or by the Apply button is
\* made without a failure and stores exactly those survive and birth counts
C30_ValidRuleIsConstructed ==
    (query # <<>> /\ query[1].done /\ is_valid_rule(query[1].rule)) =>
        LET s == query[1].rule
            i == CHOOSE k \in 1..Len(s) : s[k] = "/"
            lr == query[1].made[1]
        IN /\ parse_rule(s) = <<[alive |-> DigitsOf(s, 1, i - 1),
                                 birth |-> DigitsOf(s, i + 1, Len(s))]>>
           /\ ~panicked
           /\ ~lr.panic
           /\ lr.alive = DigitsOf(s, 1, i - 1)
           /\ lr.birth = DigitsOf(s, i + 1, Len(s))

\* the rule "2222222222/3", ten survive counts, given to the Life-Like card
C30_Witness ==
    /\ query # <<>>
    /\ query[1].done
    /\ query[1].by = "card"
    /\ query[1].rule = Repeat("2", 10) \o <<"/", "3">>
    /\ panicked

====
